---- MODULE Spec2Model ----
(***************************************************************************)
(* Model of the Kalshi high-probability notifier (src/trading_bot.py,      *)
(* src/config.py): the run orchestrator, the odds fetcher, the            *)
(* qualification filter with its ranking, and the Telegram notifier.       *)
(*                                                                         *)
(* Each stage is a step machine with its own program counter.  The stage  *)
(* specifications (SpecNotify, SpecFilter, SpecFetch, SpecNormalize) start *)
(* a stage on inputs drawn from bounded sets; SpecRoi, SpecTwice and       *)
(* SpecWindow put the filter to particular uses; Spec runs the             *)
(* orchestrator, which drives the same stage actions in sequence.          *)
(***************************************************************************)
EXTENDS Integers, Sequences, FiniteSets, TLC

VARIABLES
    \* ---- orchestrator (SimpleTradingBot.run, main, cli)
    r_pc,               \* position of main/run: "main" | "initialize" | "get_events" |
                        \* "normalize" | "fetching" | "filtering" | "notifying" |
                        \* "done" | "aborted" | "failed" ("stage": not running)
    console,            \* the run-level console messages printed so far, in order
    kalshi_client,      \* "none" | "open" | "closed"
    events,             \* raw events returned by get_top_events
    \* ---- configuration and construction (BotConfig, __init__)
    cfg,                \* the numeric settings of BotConfig
    telegram_bot_token, \* TRUE iff a token is configured
    telegram_chat_id,   \* TRUE iff a chat id is configured
    telegram_bot,       \* TRUE iff self.telegram_bot is set
    max_expiration_hours, \* the --max-expiration-hours argument (None or hours)
    self_max_close_ts,  \* self.max_close_ts (None or a timestamp)
    clock,              \* time.time(), in ticks of 1/TicksPerSec second
    \* ---- normalizer output / filter and fetcher input
    event_markets,      \* ordered mapping: sequence of [event_ticker, event, markets]
    \* ---- odds fetcher (get_market_odds)
    o_pc,               \* "idle" | "entry" | "issue" | "gather" | "sleep" | "done"
    tickers,            \* the ticker list built at lines 132-137
    batch_i,            \* the loop variable i of line 147 (0-based offset)
    gather,             \* per position of the batch: "pending" or the settled result
    completion,         \* positions of the batch in completion order
    calls,              \* every getOdds call issued so far: [batch, ticker, state]
    pauses,             \* number of inter-batch sleeps (line 157) completed
    gateway,            \* environment: the odds snapshot the gateway holds per ticker
    fetch_log,          \* tickers reported as failed at line 153, in order
    market_odds,        \* ticker -> odds (a function on the tickers that loaded)
    \* ---- qualification filter (filter_high_probability_markets)
    f_pc,               \* "idle" | "entry" | "loop" | "done"
    f_ev, f_mk,         \* position of the two nested loops
    now_ts,             \* local now_ts (line 171)
    max_close_ts,       \* local max_close_ts (line 172)
    total_markets,      \* line 174
    rejects,            \* the five counters
    results,            \* candidates, ranked once f_pc = "done"
    \* ---- notifier (send_telegram_notifications)
    n_pc,               \* "idle" | "entry" | "loop" | "done" | "raised"
    qualifying_markets, \* the ranked list handed to the notifier
    top_n,              \* line 315
    seen_pairs,         \* line 317
    sent,               \* line 318
    n_idx,              \* position of the for loop of line 319
    attempts            \* every send_message call: [idx, outcome]

runVars    == <<r_pc, console, kalshi_client, events>>
cfgVars    == <<cfg, telegram_bot_token, telegram_chat_id, telegram_bot,
               max_expiration_hours, self_max_close_ts>>
fetchVars  == <<o_pc, tickers, batch_i, gather, completion, calls, pauses, gateway,
               fetch_log, market_odds>>
filterVars == <<f_pc, f_ev, f_mk, now_ts, max_close_ts, total_markets, rejects, results>>
notifyVars == <<n_pc, qualifying_markets, top_n, seen_pairs, sent, n_idx, attempts>>
vars == <<runVars, cfgVars, clock, event_markets, fetchVars, filterVars, notifyVars>>

(***************************************************************************)
(* Python values                                                           *)
(***************************************************************************)
\* An Optional[int] is <<>> (None) or <<v>>.
None == << >>
Some(v) == <<v>>
IsNone(x) == x = << >>
Val(x) == x[1]

Min(a, b) == IF a <= b THEN a ELSE b
Max(a, b) == IF a >= b THEN a ELSE b

\* Python truthiness of an Optional[int]: None and 0 are falsy.
TruthyInt(x) == ~IsNone(x) /\ Val(x) # 0

RECURSIVE SeqsUpTo(_, _)
\* All sequences over S of length 0..n.
SeqsUpTo(S, n) ==
    IF n = 0 THEN {<< >>}
    ELSE LET shorter == SeqsUpTo(S, n - 1)
         IN  shorter \cup {Append(q, x) : q \in {r \in shorter : Len(r) = n - 1}, x \in S}

(***************************************************************************)
(* Bounds of the model                                                     *)
(***************************************************************************)
\* Longest ranked list handed to the notifier in SpecNotify.
MaxCands == 3
\* Largest max_notifications_per_run drawn in SpecNotify.
MaxCap == 2
\* Most markets (over all events) in the filter's input in SpecFilter.
MaxFilterMarkets == 2
\* Resolution of the clock: ticks per second of time.time().
TicksPerSec == 2
\* The second in which the modelled invocation starts.
StartSecond == 100000
\* Most ticks the clock advances between two readings inside one stage.
MaxDrift == 1
\* Most markets (over all events) in the fetcher's input in SpecFetch.
MaxFetchMarkets == 3
\* Most raw events get_top_events returns in Spec.
MaxRunEvents == 2
\* Most markets per event the normalizer is given as its cap in SpecNormalize.
MaxK == 2
\* Most raw events the normalizer is given in SpecNormalize.
MaxNormEvents == 2

\* Highest YES bid, in cents, of the markets given to the filter in SpecRoi.
MaxBid == 100

\* Greatest override of the window, in hours, given to main in SpecWindow.
MaxOverride == 2

\* The concurrency batch size of get_market_odds.  The source fixes it at 20
\* (line 140); the model runs the same loop with a smaller batch so that
\* every completion order of a batch can be explored.
batch_size == 2

(***************************************************************************)
(* Configuration (src/config.py)                                           *)
(***************************************************************************)
\* BotConfig with the defaults BotConfig.__init__ reads from the environment.
DefaultConfig ==
    [ max_events_to_analyze     |-> 600,
      max_markets_per_event     |-> 10,
      max_hours_to_close        |-> 24,
      min_yes_price_cents       |-> 97,
      min_spread_cents          |-> 1,
      min_volume_24h            |-> 1000,
      max_notifications_per_run |-> 5 ]

\* SimpleTradingBot.__init__, lines 37-43: the Telegram client exists only when
\* both credentials are configured and the Bot constructor did not raise.
TelegramStates ==
    { t \in [token : BOOLEAN, chat : BOOLEAN, bot : BOOLEAN] :
        t.bot => (t.token /\ t.chat) }

(***************************************************************************)
(* Python floats (IEEE 754 binary64), for roi_pct at line 229              *)
(***************************************************************************)
\* Significant bits of a binary64.
Precision == 53

\* A non-negative float: m, its Precision significant bits, first bit 1 and
\* most significant first, and e, the power of two of the first bit.
FZero == [e |-> 0, m |-> << >>]

\* The n-bit representation of v, 0 <= v < 2^n, most significant bit first.
BitsOf(v, n) == [j \in 1..n |-> (v \div 2^(n - j)) % 2]

\* The bits of n, 0 <= n < 2^30, most significant first; none for 0.
IntBits(n) == BitsOf(n, CHOOSE k \in 0..30 : n < 2^k /\ (k = 0 \/ 2^(k - 1) <= n))

RECURSIVE BitsValue(_)
\* The number a short bit string stands for.
BitsValue(bits) ==
    IF bits = << >> THEN 0
    ELSE 2 * BitsValue(SubSeq(bits, 1, Len(bits) - 1)) + bits[Len(bits)]

\* bits + 1, for bits that are not all ones.
Increment(bits) ==
    LET last == CHOOSE k \in 1..Len(bits) :
                    bits[k] = 0 /\ \A j \in (k + 1)..Len(bits) : bits[j] = 1
    IN  [k \in 1..Len(bits) |-> IF k < last THEN bits[k] ELSE IF k = last THEN 1 ELSE 0]

\* Round to nearest, ties to even: bits (first bit 1, of exponent e) are
\* the leading bits of a value, inexact says that non-zero bits follow.
RoundBits(bits, inexact, e) ==
    IF Len(bits) <= Precision
    THEN [e |-> e, m |-> bits \o [k \in 1..(Precision - Len(bits)) |-> 0]]
    ELSE LET m == SubSeq(bits, 1, Precision)
             guard == bits[Precision + 1]
             sticky == inexact \/ \E k \in (Precision + 2)..Len(bits) : bits[k] = 1
             up == guard = 1 /\ (sticky \/ m[Precision] = 1)
         IN  IF ~up THEN [e |-> e, m |-> m]
             ELSE IF \A k \in 1..Precision : m[k] = 1
             THEN [e |-> e + 1, m |-> [k \in 1..Precision |-> IF k = 1 THEN 1 ELSE 0]]
             ELSE [e |-> e, m |-> Increment(m)]

\* float(n) for an int n >= 0.
FromInt(n) == IF n = 0 THEN FZero ELSE RoundBits(IntBits(n), FALSE, Len(IntBits(n)) - 1)

RECURSIVE Expand(_, _, _, _)
\* The binary expansion of rem / b (rem < b) appended to acc, eight bits at
\* a time, until acc holds want bits or more.
Expand(acc, rem, b, want) ==
    IF Len(acc) >= want THEN [bits |-> acc, rem |-> rem]
    ELSE Expand(acc \o BitsOf((rem * 256) \div b, 8), (rem * 256) % b, b, want)

\* a / b for ints a >= 0, b > 0 (both below 2^10): the quotient correctly
\* rounded.  The quotient is first scaled into [1, 2), which fixes e.
FDiv(a, b) ==
    IF a = 0 THEN FZero
    ELSE LET up == IF a >= b THEN Len(IntBits(a \div b)) - 1 ELSE 0
             down == IF a >= b THEN 0
                     ELSE CHOOSE k \in 1..Len(IntBits(b)) :
                              a * 2^k >= b /\ a * 2^(k - 1) < b
             num == a * 2^down
             den == b * 2^up
             x == Expand(<<1>>, num - den, den, Precision + 1)
         IN  RoundBits(x.bits, x.rem # 0, up - down)

RECURSIVE TimesInt(_, _, _, _)
\* bits * n + carry as bits, for an int n > 0, worked out eight bits at a
\* time from the last bit; low holds the bits of the product already known.
TimesInt(bits, n, carry, low) ==
    IF bits = << >> THEN IntBits(carry) \o low
    ELSE LET k == Len(bits)
             c == Min(8, k)
             t == BitsValue(SubSeq(bits, k - c + 1, k)) * n + carry
         IN  TimesInt(SubSeq(bits, 1, k - c), n, t \div 2^c, BitsOf(t % 2^c, c) \o low)

\* x * n for a float x and an int n >= 0: the product correctly rounded.
FMulInt(x, n) ==
    IF x = FZero \/ n = 0 THEN FZero
    ELSE LET product == TimesInt(x.m, n, 0, << >>)
         IN  RoundBits(product, FALSE, x.e + (Len(product) - Precision))

\* a < b for bit strings of one length.
BitsLess(a, b) ==
    \E k \in 1..Len(a) : a[k] < b[k] /\ \A j \in 1..(k - 1) : a[j] = b[j]

\* x < y for non-negative floats.
FLess(x, y) ==
    IF y = FZero THEN FALSE
    ELSE IF x = FZero THEN TRUE
    ELSE IF x.e # y.e THEN x.e < y.e
    ELSE BitsLess(x.m, y.m)

RoiPctAsFraction(roi_cents, yes_bid) ==
    IF yes_bid # 0 THEN FDiv(roi_cents, yes_bid) ELSE FZero

\* Line 229: (roi_cents / yes_bid * 100) if yes_bid else 0.
RoiPct(roi_cents, yes_bid) ==
    IF yes_bid # 0 THEN FMulInt(FDiv(roi_cents, yes_bid), 100) ELSE FZero

(***************************************************************************)
(* Candidates (the dicts appended at lines 233-252)                        *)
(***************************************************************************)
\* The fields of a candidate that the pipeline computes with.  ticker_base,
\* event_slug and the titles only feed the message text and are left out.
Candidate(ticker, event_ticker, subtitle, yes_bid, yes_ask, hours, close_ts, event_volume, market_volume) ==
    [ ticker           |-> ticker,
      event_ticker     |-> event_ticker,
      market_subtitle  |-> subtitle,
      yes_bid          |-> yes_bid,
      yes_ask          |-> yes_ask,
      spread           |-> yes_ask - yes_bid,
      hours_to_close   |-> hours,
      close_ts         |-> close_ts,
      event_volume_24h |-> event_volume,
      market_volume    |-> market_volume,
      roi_cents        |-> Max(0, 100 - yes_bid),
      roi_pct          |-> RoiPct(Max(0, 100 - yes_bid), yes_bid) ]

(***************************************************************************)
(* Notifier: SimpleTradingBot.send_telegram_notifications, lines 307-338   *)
(***************************************************************************)
\* What one send_message call can do: return, raise TelegramError (caught at
\* line 336), or raise anything else (not caught in this method).
SendOutcomes == {"ok", "TelegramError", "Exception"}

DedupKeyByTicker(market) == <<market.event_ticker, market.ticker>>

\* Line 320: (event_ticker, market_subtitle or ticker).
DedupKey(market) ==
    <<market.event_ticker,
      IF market.market_subtitle # "" THEN market.market_subtitle ELSE market.ticker>>

TopNOfCap(n_markets, cap) == cap

\* Line 315.
TopN(n_markets, cap) == Min(n_markets, cap)

BreakAfterAttempts(n_sent, n_attempts, limit) == n_attempts >= limit

\* Line 334: the loop is left when the successes reach top_n.
BreakAfter(n_sent, n_attempts, limit) == n_sent >= limit

NotifyEnterUnconfigured ==
    /\ n_pc = "entry"
    /\ IF qualifying_markets = << >>
       THEN /\ n_pc' = "done"
            /\ console' = Append(console, "Telegram skipped")
            /\ UNCHANGED <<top_n, seen_pairs, sent, n_idx>>
       ELSE /\ n_pc' = "loop"
            /\ top_n' = TopN(Len(qualifying_markets), cfg.max_notifications_per_run)
            /\ seen_pairs' = {}
            /\ sent' = 0
            /\ n_idx' = 1
            /\ UNCHANGED console
    /\ UNCHANGED <<r_pc, kalshi_client, events, cfgVars, clock, event_markets,
                   fetchVars, filterVars, qualifying_markets, attempts>>

\* Lines 309-318: the two early returns, else the loop is set up.
NotifyEnter ==
    /\ n_pc = "entry"
    /\ IF ~telegram_bot \/ ~telegram_chat_id
       THEN /\ n_pc' = "done"
            /\ UNCHANGED <<console, top_n, seen_pairs, sent, n_idx>>
       ELSE IF qualifying_markets = << >>
       THEN /\ n_pc' = "done"
            /\ console' = Append(console, "Telegram skipped")
            /\ UNCHANGED <<top_n, seen_pairs, sent, n_idx>>
       ELSE /\ n_pc' = "loop"
            /\ top_n' = TopN(Len(qualifying_markets), cfg.max_notifications_per_run)
            /\ seen_pairs' = {}
            /\ sent' = 0
            /\ n_idx' = 1
            /\ UNCHANGED console
    /\ UNCHANGED <<r_pc, kalshi_client, events, cfgVars, clock, event_markets,
                   fetchVars, filterVars, qualifying_markets, attempts>>

NotifySkipAny ==
    /\ n_pc = "loop"
    /\ n_idx <= Len(qualifying_markets)
    /\ n_idx' = n_idx + 1
    /\ UNCHANGED <<runVars, cfgVars, clock, event_markets, fetchVars, filterVars,
                   n_pc, qualifying_markets, top_n, seen_pairs, sent, attempts>>

\* Lines 319-322: a candidate whose key was already seen is passed over.
NotifySkipSeen ==
    /\ n_pc = "loop"
    /\ n_idx <= Len(qualifying_markets)
    /\ DedupKey(qualifying_markets[n_idx]) \in seen_pairs
    /\ n_idx' = n_idx + 1
    /\ UNCHANGED <<runVars, cfgVars, clock, event_markets, fetchVars, filterVars,
                   n_pc, qualifying_markets, top_n, seen_pairs, sent, attempts>>

NotifySendMarkingOnSuccess(outcome) ==
    /\ n_pc = "loop"
    /\ n_idx <= Len(qualifying_markets)
    /\ DedupKey(qualifying_markets[n_idx]) \notin seen_pairs
    /\ seen_pairs' = IF outcome = "ok"
                     THEN seen_pairs \cup {DedupKey(qualifying_markets[n_idx])}
                     ELSE seen_pairs
    /\ attempts' = Append(attempts, [idx |-> n_idx, outcome |-> outcome])
    /\ CASE outcome = "ok" ->
              /\ sent' = sent + 1
              /\ IF BreakAfter(sent + 1, Len(attempts) + 1, top_n)
                 THEN n_pc' = "done" /\ n_idx' = n_idx
                 ELSE n_pc' = "loop" /\ n_idx' = n_idx + 1
         [] outcome = "TelegramError" ->
              /\ sent' = sent
              /\ n_pc' = "loop"
              /\ n_idx' = n_idx + 1
         [] outcome = "Exception" ->
              /\ sent' = sent
              /\ n_pc' = "raised"
              /\ n_idx' = n_idx
    /\ UNCHANGED <<runVars, cfgVars, clock, event_markets, fetchVars, filterVars,
                   qualifying_markets, top_n>>

\* Lines 323-338: the key is recorded, the message is sent, and the outcome
\* of the send decides how the loop goes on.
NotifySend(outcome) ==
    /\ n_pc = "loop"
    /\ n_idx <= Len(qualifying_markets)
    /\ DedupKey(qualifying_markets[n_idx]) \notin seen_pairs
    /\ seen_pairs' = seen_pairs \cup {DedupKey(qualifying_markets[n_idx])}
    /\ attempts' = Append(attempts, [idx |-> n_idx, outcome |-> outcome])
    /\ CASE outcome = "ok" ->
              /\ sent' = sent + 1
              /\ IF BreakAfter(sent + 1, Len(attempts) + 1, top_n)
                 THEN n_pc' = "done" /\ n_idx' = n_idx
                 ELSE n_pc' = "loop" /\ n_idx' = n_idx + 1
         [] outcome = "TelegramError" ->
              /\ sent' = sent
              /\ n_pc' = "loop"
              /\ n_idx' = n_idx + 1
         [] outcome = "Exception" ->
              /\ sent' = sent
              /\ n_pc' = "raised"
              /\ n_idx' = n_idx
    /\ UNCHANGED <<runVars, cfgVars, clock, event_markets, fetchVars, filterVars,
                   qualifying_markets, top_n>>

\* Line 319: the for loop ends when the candidates are exhausted.
NotifyExhausted ==
    /\ n_pc = "loop"
    /\ n_idx > Len(qualifying_markets)
    /\ n_pc' = "done"
    /\ UNCHANGED <<runVars, cfgVars, clock, event_markets, fetchVars, filterVars,
                   qualifying_markets, top_n, seen_pairs, sent, n_idx, attempts>>

(***************************************************************************)
(* Odds fetcher: SimpleTradingBot.get_market_odds, lines 129-160           *)
(***************************************************************************)
RECURSIVE MarketTickers(_)
\* The non-empty tickers of a market list, in order (lines 134-137).
MarketTickers(ms) ==
    IF ms = << >> THEN << >>
    ELSE (IF ms[1].ticker # "" THEN <<ms[1].ticker>> ELSE << >>) \o MarketTickers(Tail(ms))

RECURSIVE CollectTickers(_)
\* Lines 132-137: every non-empty ticker of every event, in iteration order.
\* A ticker that occurs twice is listed twice.
CollectTickers(ems) ==
    IF ems = << >> THEN << >>
    ELSE MarketTickers(ems[1].markets) \o CollectTickers(Tail(ems))

BatchAllRemaining(ts, i) == SubSeq(ts, i + 1, Len(ts))

\* tickers[i : i + batch_size], line 148 (i is 0-based).
Batch(ts, i) == SubSeq(ts, i + 1, Min(i + batch_size, Len(ts)))

\* What one get_market_with_odds call can come back with inside gather
\* (return_exceptions=True): an exception, an empty result, or the snapshot.
Pending == [kind |-> "pending", odds |-> << >>]
Raised == [kind |-> "raise", odds |-> << >>]
Empty == [kind |-> "empty", odds |-> << >>]
Loaded(odds) == [kind |-> "ok", odds |-> odds]

Responses(ticker) == {Raised, Empty, Loaded(gateway[ticker])}

\* The mapping with ticker set to odds (market_odds[ticker] = result).
Store(mapping, ticker, odds) ==
    [t \in DOMAIN mapping \cup {ticker} |-> IF t = ticker THEN odds ELSE mapping[t]]

RECURSIVE CollectByCompletion(_, _, _, _, _)
CollectByCompletion(mapping, batch, res, order, k) ==
    IF k > Len(batch) THEN mapping
    ELSE CollectByCompletion(
            IF res[order[k]].kind = "ok"
            THEN Store(mapping, batch[k], res[order[k]].odds) ELSE mapping,
            batch, res, order, k + 1)

RECURSIVE CollectUntilFailure(_, _, _, _, _)
CollectUntilFailure(mapping, batch, res, order, k) ==
    IF k > Len(batch) \/ res[k].kind # "ok" THEN mapping
    ELSE CollectUntilFailure(Store(mapping, batch[k], res[k].odds), batch, res, order, k + 1)

RECURSIVE CollectResults(_, _, _, _, _)
\* Lines 151-155 from position k on: zip(batch, results) pairs each ticker
\* with the result at the same position; only a non-exception, non-empty
\* result is stored.  order (the completion order) plays no part.
CollectResults(mapping, batch, res, order, k) ==
    IF k > Len(batch) THEN mapping
    ELSE CollectResults(
            IF res[k].kind = "ok" THEN Store(mapping, batch[k], res[k].odds) ELSE mapping,
            batch, res, order, k + 1)

RECURSIVE FailedTickers(_, _, _)
\* The tickers line 153 reports, in order.
FailedTickers(batch, res, k) ==
    IF k > Len(batch) THEN << >>
    ELSE (IF res[k].kind # "ok" THEN <<batch[k]>> ELSE << >>) \o FailedTickers(batch, res, k + 1)

\* Lines 131-140: the ticker list and the empty result mapping.
FetchEnter ==
    /\ o_pc = "entry"
    /\ tickers' = CollectTickers(event_markets)
    /\ market_odds' = << >>
    /\ batch_i' = 0
    /\ gather' = << >>
    /\ completion' = << >>
    /\ o_pc' = "issue"
    /\ UNCHANGED <<runVars, cfgVars, clock, event_markets, filterVars, notifyVars,
                   calls, pauses, gateway, fetch_log>>

\* Lines 147-150: the next batch is cut and all its calls are started at
\* once by asyncio.gather.
FetchIssueBatch ==
    /\ o_pc = "issue"
    /\ batch_i < Len(tickers)
    /\ LET batch == Batch(tickers, batch_i)
       IN  /\ gather' = [k \in 1..Len(batch) |-> Pending]
           /\ calls' = calls \o
                 [k \in 1..Len(batch) |->
                    [batch |-> batch_i, ticker |-> batch[k], state |-> "pending"]]
    /\ completion' = << >>
    /\ o_pc' = "gather"
    /\ UNCHANGED <<runVars, cfgVars, clock, event_markets, filterVars, notifyVars,
                   tickers, batch_i, pauses, gateway, fetch_log, market_odds>>

\* One outstanding call of the batch settles, in any order, with any response.
FetchSettle(k, response) ==
    /\ o_pc = "gather"
    /\ k \in 1..Len(gather)
    /\ gather[k] = Pending
    /\ gather' = [gather EXCEPT ![k] = response]
    /\ completion' = Append(completion, k)
    /\ calls' = [calls EXCEPT ![Len(calls) - Len(gather) + k].state = response.kind]
    /\ UNCHANGED <<runVars, cfgVars, clock, event_markets, filterVars, notifyVars,
                   o_pc, tickers, batch_i, pauses, gateway, fetch_log, market_odds>>

\* Lines 150-156: gather returns once every call has settled; the results
\* are matched to the batch's tickers.
FetchCollect ==
    /\ o_pc = "gather"
    /\ \A k \in 1..Len(gather) : gather[k] # Pending
    /\ LET batch == Batch(tickers, batch_i)
       IN  /\ market_odds' = CollectResults(market_odds, batch, gather, completion, 1)
           /\ fetch_log' = fetch_log \o FailedTickers(batch, gather, 1)
    /\ gather' = << >>
    /\ o_pc' = "sleep"
    /\ UNCHANGED <<runVars, cfgVars, clock, event_markets, filterVars, notifyVars,
                   tickers, batch_i, completion, calls, pauses, gateway>>

\* Line 157 and the step of the range at line 147: the pause ends.
FetchWake ==
    /\ o_pc = "sleep"
    /\ pauses' = pauses + 1
    /\ batch_i' = batch_i + batch_size
    /\ o_pc' = "issue"
    /\ UNCHANGED <<runVars, cfgVars, clock, event_markets, filterVars, notifyVars,
                   tickers, gather, completion, calls, gateway, fetch_log, market_odds>>

\* Lines 159-160: no ticker is left; the mapping is returned.
FetchReturn ==
    /\ o_pc = "issue"
    /\ batch_i >= Len(tickers)
    /\ o_pc' = "done"
    /\ UNCHANGED <<runVars, cfgVars, clock, event_markets, filterVars, notifyVars,
                   tickers, batch_i, gather, completion, calls, pauses, gateway,
                   fetch_log, market_odds>>

(***************************************************************************)
(* Construction: main (lines 467-473) and __init__ (lines 27-35)           *)
(***************************************************************************)
\* int(time.time()) at clock reading c.
IntTime(c) == c \div TicksPerSec

SelfMaxCloseTsNoFloor(override, config, c) ==
    IF ~IsNone(override)
    THEN Some(IntTime(c) + Val(override) * 3600)
    ELSE IF config.max_hours_to_close # 0
    THEN Some(IntTime(c) + config.max_hours_to_close * 3600)
    ELSE None

\* self.max_close_ts after construction at clock reading c: the override of
\* main (line 471, at least one hour), else the configured window (line 35),
\* else None when the configured window is 0.
SelfMaxCloseTs(override, config, c) ==
    IF ~IsNone(override)
    THEN Some(IntTime(c) + Max(1, Val(override)) * 3600)
    ELSE IF config.max_hours_to_close # 0
    THEN Some(IntTime(c) + config.max_hours_to_close * 3600)
    ELSE None

(***************************************************************************)
(* Qualification filter: filter_high_probability_markets, lines 162-268    *)
(***************************************************************************)
\* A close-time string is absent (None or ""), unparseable, or an ISO-8601
\* time whose UTC epoch second is secs.
NoTime == [kind |-> "absent", secs |-> 0]
BadTime == [kind |-> "garbage", secs |-> 0]
IsoTime(secs) == [kind |-> "iso", secs |-> secs]

\* _parse_kalshi_timestamp, lines 388-400.
ParseKalshiTimestamp(ts) ==
    IF ts.kind = "iso" THEN Some(ts.secs) ELSE None

\* odds.get("close_time") or market.get("close_time"), line 210.
CloseTimeOf(market, odds) ==
    IF odds.close_time.kind # "absent" THEN odds.close_time ELSE market.close_time

\* _hours_until, lines 382-386, at clock reading c: close_ts - time.time(),
\* kept in ticks (the division by 3600 only rescales it).
HoursUntil(close_ts, c) == close_ts * TicksPerSec - c

\* Lines 219-223.
MarketVolume(market, odds) ==
    Max(market.volume_24h, Max(market.volume, odds.volume))

HasOdds(ticker) == ticker \in DOMAIN market_odds

VerdictNoWindow(event_volume, market, has_odds, odds, now, maxclose, config) ==
    IF market.ticker = "" THEN "no_ticker"
    ELSE IF ~has_odds THEN "no_odds"
    ELSE IF IsNone(odds.yes_bid) \/ IsNone(odds.yes_ask) THEN "no_price"
    ELSE IF Val(odds.yes_bid) < config.min_yes_price_cents THEN "price"
    ELSE IF Val(odds.yes_ask) - Val(odds.yes_bid) < config.min_spread_cents THEN "spread"
    ELSE LET close_ts == ParseKalshiTimestamp(CloseTimeOf(market, odds))
         IN  IF IsNone(close_ts) \/ Val(close_ts) <= now THEN "expiration"
             ELSE IF Max(event_volume, MarketVolume(market, odds)) < config.min_volume_24h
             THEN "volume"
             ELSE "keep"

\* The branch the loop body (lines 188-226) takes for one market:
\* "no_ticker" and "no_price" are the two silent `continue`s (lines 190, 200),
\* the five counter names are the counted rejections, "keep" reaches line 228.
Verdict(event_volume, market, has_odds, odds, now, maxclose, config) ==
    IF market.ticker = "" THEN "no_ticker"
    ELSE IF ~has_odds THEN "no_odds"
    ELSE IF IsNone(odds.yes_bid) \/ IsNone(odds.yes_ask) THEN "no_price"
    ELSE IF Val(odds.yes_bid) < config.min_yes_price_cents THEN "price"
    ELSE IF Val(odds.yes_ask) - Val(odds.yes_bid) < config.min_spread_cents THEN "spread"
    ELSE LET close_ts == ParseKalshiTimestamp(CloseTimeOf(market, odds))
         IN  IF IsNone(close_ts) \/ Val(close_ts) <= now THEN "expiration"
             ELSE IF TruthyInt(maxclose) /\ Val(close_ts) > Val(maxclose) THEN "expiration"
             ELSE IF Max(event_volume, MarketVolume(market, odds)) < config.min_volume_24h
             THEN "volume"
             ELSE "keep"

\* Whether the loop body reads the clock for this market (line 218 is reached).
ReadsClock(verdict) == verdict \in {"volume", "keep"}

CountedNoPriceAsNoOdds(counters, verdict) ==
    IF verdict \in {"no_odds", "no_price"}
    THEN [counters EXCEPT !.no_odds = @ + 1]
    ELSE IF verdict \in {"price", "spread", "expiration", "volume"}
    THEN [counters EXCEPT ![verdict] = @ + 1]
    ELSE counters

\* The counters after a market with this verdict: lines 194, 202, 207, 212,
\* 215, 225; lines 190 and 200 count nothing.
Counted(counters, verdict) ==
    IF verdict \in {"no_odds", "price", "spread", "expiration", "volume"}
    THEN [counters EXCEPT ![verdict] = @ + 1]
    ELSE counters

RECURSIVE SumLen(_)
\* sum(len(data["markets"]) for data in event_markets.values()), line 174.
SumLen(ems) ==
    IF ems = << >> THEN 0 ELSE Len(ems[1].markets) + SumLen(Tail(ems))

RankBeforeByRoiOnly(a, b) == FLess(b.roi_pct, a.roi_pct)

\* Sort key of lines 255-258: a sorts strictly before b.
RankBefore(a, b) ==
    \/ FLess(b.roi_pct, a.roi_pct)
    \/ /\ a.roi_pct = b.roi_pct
       /\ a.hours_to_close < b.hours_to_close

RECURSIVE InsertRanked(_, _)
\* c placed into the ranked list after every element it does not sort before.
InsertRanked(ranked, c) ==
    IF ranked = << >> THEN <<c>>
    ELSE IF RankBefore(c, ranked[Len(ranked)])
    THEN Append(InsertRanked(SubSeq(ranked, 1, Len(ranked) - 1), c), ranked[Len(ranked)])
    ELSE Append(ranked, c)

RECURSIVE SortRanked(_)
\* list.sort with the key of lines 254-259: a stable sort.
SortRanked(cands) ==
    IF cands = << >> THEN << >>
    ELSE InsertRanked(SortRanked(SubSeq(cands, 1, Len(cands) - 1)), cands[Len(cands)])

FilterEnterKeepingResults ==
    /\ f_pc = "entry"
    /\ IF event_markets = << >>
       THEN /\ f_pc' = "done"
            /\ UNCHANGED <<now_ts, max_close_ts, total_markets>>
       ELSE /\ f_pc' = "loop"
            /\ now_ts' = IntTime(clock)
            /\ max_close_ts' =
                 IF TruthyInt(self_max_close_ts)
                 THEN self_max_close_ts
                 ELSE Some(IntTime(clock) + cfg.max_hours_to_close * 3600)
            /\ total_markets' = SumLen(event_markets)
    /\ f_ev' = 1
    /\ f_mk' = 1
    /\ rejects' = [no_odds |-> 0, price |-> 0, spread |-> 0, expiration |-> 0, volume |-> 0]
    /\ results' = results
    /\ UNCHANGED <<runVars, cfgVars, clock, event_markets, fetchVars, notifyVars>>

\* Lines 168-181: the early return on an empty mapping, else the locals.
FilterEnter ==
    /\ f_pc = "entry"
    /\ IF event_markets = << >>
       THEN /\ f_pc' = "done"
            /\ UNCHANGED <<now_ts, max_close_ts, total_markets>>
       ELSE /\ f_pc' = "loop"
            /\ now_ts' = IntTime(clock)
            /\ max_close_ts' =
                 IF TruthyInt(self_max_close_ts)
                 THEN self_max_close_ts
                 ELSE Some(IntTime(clock) + cfg.max_hours_to_close * 3600)
            /\ total_markets' = SumLen(event_markets)
    /\ f_ev' = 1
    /\ f_mk' = 1
    /\ rejects' = [no_odds |-> 0, price |-> 0, spread |-> 0, expiration |-> 0, volume |-> 0]
    /\ results' = << >>
    /\ UNCHANGED <<runVars, cfgVars, clock, event_markets, fetchVars, notifyVars>>

\* The market the loops of lines 183 and 187 are at.
CurEvent == event_markets[f_ev]
CurMarket == CurEvent.markets[f_mk]
CurOdds == IF HasOdds(CurMarket.ticker) THEN market_odds[CurMarket.ticker] ELSE << >>
CurVerdict ==
    Verdict(CurEvent.event.volume_24h, CurMarket, HasOdds(CurMarket.ticker), CurOdds,
            now_ts, max_close_ts, cfg)

\* Lines 187-252: one pass of the loop body, for the current market.  The
\* clock read at line 218 is any reading not before the one already seen.
FilterMarket ==
    /\ f_pc = "loop"
    /\ f_ev <= Len(event_markets)
    /\ LET v == CurVerdict
       IN  /\ rejects' = Counted(rejects, v)
           /\ IF ReadsClock(v)
              THEN \E d \in 0..MaxDrift :
                     /\ clock' = clock + d
                     /\ results' =
                          IF v = "keep"
                          THEN Append(results,
                                 Candidate(CurMarket.ticker, CurEvent.event_ticker,
                                           CurMarket.subtitle,
                                           Val(CurOdds.yes_bid), Val(CurOdds.yes_ask),
                                           HoursUntil(Val(ParseKalshiTimestamp(CloseTimeOf(CurMarket, CurOdds))), clock + d),
                                           Val(ParseKalshiTimestamp(CloseTimeOf(CurMarket, CurOdds))),
                                           CurEvent.event.volume_24h,
                                           MarketVolume(CurMarket, CurOdds)))
                          ELSE results
              ELSE UNCHANGED <<clock, results>>
    /\ IF f_mk < Len(CurEvent.markets)
       THEN f_mk' = f_mk + 1 /\ f_ev' = f_ev
       ELSE f_mk' = 1 /\ f_ev' = f_ev + 1
    /\ UNCHANGED <<runVars, cfgVars, event_markets, fetchVars, notifyVars,
                   f_pc, now_ts, max_close_ts, total_markets>>

\* Lines 254-268: the loops are over; rank, print the summary, return.
FilterRank ==
    /\ f_pc = "loop"
    /\ f_ev > Len(event_markets)
    /\ results' = SortRanked(results)
    /\ f_pc' = "done"
    /\ UNCHANGED <<runVars, cfgVars, clock, event_markets, fetchVars, notifyVars,
                   f_ev, f_mk, now_ts, max_close_ts, total_markets, rejects>>

(***************************************************************************)
(* Normalizer: get_markets_for_events, lines 94-127                        *)
(***************************************************************************)
\* Position of the entry with this key in an ordered mapping, 0 if none.
KeyIndex(mapping, key) ==
    IF \E k \in 1..Len(mapping) : mapping[k].event_ticker = key
    THEN CHOOSE k \in 1..Len(mapping) : mapping[k].event_ticker = key
    ELSE 0

\* event_markets[key] = entry on a dict: a new key goes last, an existing
\* key keeps its place and takes the new value.
SetEntry(mapping, entry) ==
    LET k == KeyIndex(mapping, entry.event_ticker)
    IN  IF k = 0 THEN Append(mapping, entry) ELSE [mapping EXCEPT ![k] = entry]

LastK(ms, K) == SubSeq(ms, Len(ms) - Min(K, Len(ms)) + 1, Len(ms))

\* markets[: K], line 108: the first K markets for K >= 0, and all but the
\* last -K markets for K < 0, as a Python slice counts a negative bound from
\* the end.
FirstK(ms, K) ==
    IF K >= 0 THEN SubSeq(ms, 1, Min(K, Len(ms)))
    ELSE SubSeq(ms, 1, Max(0, Len(ms) + K))

RECURSIVE Normalize(_, _, _)
\* Lines 99-121 over raw[1..k]: an event without a ticker is skipped, the
\* first K markets are kept, an event left with no market gets no entry.
Normalize(raw, K, k) ==
    IF k = 0 THEN << >>
    ELSE LET before == Normalize(raw, K, k - 1)
             event == raw[k]
             top_markets == FirstK(event.markets, K)
         IN  IF event.event_ticker = "" THEN before
             ELSE IF top_markets = << >> THEN before
             ELSE SetEntry(before, [ event_ticker |-> event.event_ticker,
                                     event |-> [volume_24h |-> event.volume_24h],
                                     markets |-> top_markets ])

(***************************************************************************)
(* Orchestrator: main (467-473), __init__ (27-43), run (429-464)           *)
(***************************************************************************)
RECURSIVE InsertByVolume(_, _)
\* e placed after every entry whose event volume is not smaller.
InsertByVolume(sorted, e) ==
    IF sorted = << >> THEN <<e>>
    ELSE IF e.event.volume_24h > sorted[Len(sorted)].event.volume_24h
    THEN Append(InsertByVolume(SubSeq(sorted, 1, Len(sorted) - 1), e), sorted[Len(sorted)])
    ELSE Append(sorted, e)

RECURSIVE SortByVolumeDesc(_)
\* sorted(..., key=volume_24h, reverse=True), lines 445-449: stable.
SortByVolumeDesc(mapping) ==
    IF mapping = << >> THEN << >>
    ELSE InsertByVolume(SortByVolumeDesc(SubSeq(mapping, 1, Len(mapping) - 1)),
                        mapping[Len(mapping)])

KeepFirstEvents(mapping, n) ==
    IF Len(mapping) > n THEN SubSeq(mapping, 1, n) ELSE mapping

\* Lines 444-450: only the top max_events_to_analyze events by 24h volume
\* (sorted_events[: n], a Python slice, which for n < 0 leaves out the last
\* -n events).
KeepTopEvents(mapping, n) ==
    IF Len(mapping) > n
    THEN IF n >= 0 THEN SubSeq(SortByVolumeDesc(mapping), 1, n)
         ELSE SubSeq(SortByVolumeDesc(mapping), 1, Max(0, Len(mapping) + n))
    ELSE mapping

\* main, lines 469-472, and __init__, lines 27-43, at the current clock.
RunConstruct ==
    /\ r_pc = "main"
    /\ self_max_close_ts' = SelfMaxCloseTs(max_expiration_hours, cfg, clock)
    /\ \E t \in TelegramStates :
         /\ t.token = telegram_bot_token
         /\ t.chat = telegram_chat_id
         /\ telegram_bot' = t.bot
    /\ r_pc' = "initialize"
    /\ UNCHANGED <<console, kalshi_client, events, cfg, telegram_bot_token,
                   telegram_chat_id, max_expiration_hours, clock, event_markets,
                   fetchVars, filterVars, notifyVars>>

\* initialize, lines 45-55, inside run's try: the client is created and
\* logs in.  A failed login raises; the finally clause closes the client and
\* cli reports the error.
RunInitialize(login_ok) ==
    /\ r_pc = "initialize"
    /\ IF login_ok
       THEN /\ kalshi_client' = "open"
            /\ r_pc' = "get_events"
            /\ UNCHANGED console
       ELSE /\ kalshi_client' = "closed"
            /\ r_pc' = "failed"
            /\ console' = Append(console, "Error")
    /\ UNCHANGED <<events, cfgVars, clock, event_markets, fetchVars, filterVars,
                   notifyVars>>

\* get_top_events, lines 72-92, and lines 433-436: answer is the gateway's
\* event list, or an exception, which is caught and leaves the list empty.
RunGetTopEvents(answer) ==
    /\ r_pc = "get_events"
    /\ LET raised == answer.raised
           got == IF raised THEN << >> ELSE answer.events
           said == IF raised THEN <<"Error fetching events">> ELSE << >>
       IN  /\ events' = got
           /\ IF got = << >>
              THEN /\ console' = console \o said \o <<"No events returned">>
                   /\ kalshi_client' = "closed"
                   /\ r_pc' = "aborted"
              ELSE /\ console' = console \o said
                   /\ kalshi_client' = kalshi_client
                   /\ r_pc' = "normalize"
    /\ UNCHANGED <<cfgVars, clock, event_markets, fetchVars, filterVars, notifyVars>>

\* Lines 438-452: normalize, leave when nothing is left, keep the top events
\* and call the odds fetcher.
RunNormalize ==
    /\ r_pc = "normalize"
    /\ LET normalized == Normalize(events, cfg.max_markets_per_event, Len(events))
       IN  IF normalized = << >>
           THEN /\ event_markets' = normalized
                /\ console' = Append(console, "No markets to process")
                /\ kalshi_client' = "closed"
                /\ r_pc' = "aborted"
                /\ o_pc' = o_pc
           ELSE /\ event_markets' = KeepTopEvents(normalized, cfg.max_events_to_analyze)
                /\ r_pc' = "fetching"
                /\ o_pc' = "entry"
                /\ UNCHANGED <<console, kalshi_client>>
    /\ UNCHANGED <<events, cfgVars, clock, filterVars, notifyVars, tickers, batch_i,
                   gather, completion, calls, pauses, gateway, fetch_log, market_odds>>

RunAfterFetchNeverAborts ==
    /\ r_pc = "fetching"
    /\ o_pc = "done"
    /\ r_pc' = "filtering"
    /\ f_pc' = "entry"
    /\ UNCHANGED <<console, kalshi_client>>
    /\ UNCHANGED <<events, cfgVars, clock, event_markets, fetchVars, notifyVars,
                   f_ev, f_mk, now_ts, max_close_ts, total_markets, rejects, results>>

\* Lines 452-457: the fetcher has returned; leave when no odds loaded, else
\* call the filter.
RunAfterFetch ==
    /\ r_pc = "fetching"
    /\ o_pc = "done"
    /\ IF DOMAIN market_odds = {}
       THEN /\ console' = Append(console, "Unable to load market odds")
            /\ kalshi_client' = "closed"
            /\ r_pc' = "aborted"
            /\ f_pc' = f_pc
       ELSE /\ r_pc' = "filtering"
            /\ f_pc' = "entry"
            /\ UNCHANGED <<console, kalshi_client>>
    /\ UNCHANGED <<events, cfgVars, clock, event_markets, fetchVars, notifyVars,
                   f_ev, f_mk, now_ts, max_close_ts, total_markets, rejects, results>>

\* Lines 457-459: the filter has returned; render the table (lines 270-274
\* print a notice when it is empty) and call the notifier.
RunAfterFilter ==
    /\ r_pc = "filtering"
    /\ f_pc = "done"
    /\ qualifying_markets' = results
    /\ console' = IF results = << >>
                  THEN Append(console, "No markets met the criteria")
                  ELSE console
    /\ r_pc' = "notifying"
    /\ n_pc' = "entry"
    /\ UNCHANGED <<kalshi_client, events, cfgVars, clock, event_markets, fetchVars,
                   filterVars, top_n, seen_pairs, sent, n_idx, attempts>>

RunAfterNotifyClosingOnSuccess ==
    /\ r_pc = "notifying"
    /\ n_pc \in {"done", "raised"}
    /\ IF n_pc = "done"
       THEN r_pc' = "done" /\ console' = Append(console, "Run complete")
                           /\ kalshi_client' = "closed"
       ELSE r_pc' = "failed" /\ console' = Append(console, "Error")
                             /\ kalshi_client' = kalshi_client
    /\ UNCHANGED <<events, cfgVars, clock, event_markets, fetchVars, filterVars,
                   notifyVars>>

\* Lines 459-464: the notifier has returned (then "Run complete.") or an
\* exception escaped from it (then cli reports the error); the finally
\* clause closes the client either way.
RunAfterNotify ==
    /\ r_pc = "notifying"
    /\ n_pc \in {"done", "raised"}
    /\ IF n_pc = "done"
       THEN r_pc' = "done" /\ console' = Append(console, "Run complete")
       ELSE r_pc' = "failed" /\ console' = Append(console, "Error")
    /\ kalshi_client' = "closed"
    /\ UNCHANGED <<events, cfgVars, clock, event_markets, fetchVars, filterVars,
                   notifyVars>>

(***************************************************************************)
(* Stages at rest: the values a stage's variables hold before it is called *)
(***************************************************************************)
RunAtRest ==
    /\ r_pc = "stage"
    /\ console = << >>
    /\ kalshi_client = "none"
    /\ events = << >>

FetchAtRest ==
    /\ o_pc = "idle"
    /\ tickers = << >>
    /\ batch_i = 0
    /\ gather = << >>
    /\ completion = << >>
    /\ calls = << >>
    /\ pauses = 0
    /\ fetch_log = << >>

FilterAtRest ==
    /\ f_pc = "idle"
    /\ f_ev = 1
    /\ f_mk = 1
    /\ now_ts = 0
    /\ max_close_ts = None
    /\ total_markets = 0
    /\ rejects = [no_odds |-> 0, price |-> 0, spread |-> 0, expiration |-> 0, volume |-> 0]
    /\ results = << >>

NotifyAtRest ==
    /\ n_pc = "idle"
    /\ qualifying_markets = << >>
    /\ top_n = 0
    /\ seen_pairs = {}
    /\ sent = 0
    /\ n_idx = 1
    /\ attempts = << >>

(***************************************************************************)
(* SpecNotify: the notifier on its own, called on any ranked list          *)
(***************************************************************************)
\* Candidates that differ only in what the notifier reads: the event, the
\* outcome label and the ticker.  All rank equal, so every order is ranked.
NotifyCandidates ==
    { Candidate(t, e, s, 98, 99, 1, 1, 1000, 1000) :
        t \in {"T1", "T2"}, e \in {"E1", "E2"}, s \in {"", "Yes"} }

InitNotify ==
    /\ RunAtRest /\ FetchAtRest /\ FilterAtRest
    /\ event_markets = << >>
    /\ market_odds = << >>
    /\ gateway = << >>
    /\ clock = 0
    /\ max_expiration_hours = None
    /\ self_max_close_ts = None
    /\ \E cap \in 0..MaxCap :
         cfg = [DefaultConfig EXCEPT !.max_notifications_per_run = cap]
    /\ \E t \in TelegramStates :
         /\ telegram_bot_token = t.token
         /\ telegram_chat_id = t.chat
         /\ telegram_bot = t.bot
    /\ n_pc = "entry"
    /\ qualifying_markets \in SeqsUpTo(NotifyCandidates, MaxCands)
    /\ top_n = 0
    /\ seen_pairs = {}
    /\ sent = 0
    /\ n_idx = 1
    /\ attempts = << >>

NextNotify ==
    \/ NotifyEnter
    \/ NotifySkipSeen
    \/ \E outcome \in SendOutcomes : NotifySend(outcome)
    \/ NotifyExhausted

SpecNotify == InitNotify /\ [][NextNotify]_vars

(***************************************************************************)
(* SpecFilter: the filter on its own, called on any mapping and odds       *)
(***************************************************************************)
TickerNames == <<"T1", "T2", "T3", "T4", "T5", "T6">>
EventNames == <<"E1", "E2", "E3", "E4", "E5", "E6">>

\* A market summary as get_markets_for_events builds it (lines 110-117).
Market(ticker, subtitle, volume, volume_24h, close_time) ==
    [ ticker |-> ticker, subtitle |-> subtitle, volume |-> volume,
      volume_24h |-> volume_24h, close_time |-> close_time ]

\* An odds snapshot as the gateway returns it.
Odds(yes_bid, yes_ask, close_time, volume) ==
    [ yes_bid |-> yes_bid, yes_ask |-> yes_ask, close_time |-> close_time,
      volume |-> volume ]

\* One market of the filter's input with the odds entry of its ticker:
\* has_ticker, the market's fields, has_odds and the odds' fields.
RowKinds ==
    LET now == StartSecond
        row(has_ticker, m, has_odds, o) ==
            [has_ticker |-> has_ticker, market |-> m, has_odds |-> has_odds, odds |-> o]
    IN  { \* no ticker
          row(FALSE, Market("", "", 0, 5000, IsoTime(now + 1)), FALSE, << >>),
          \* no odds entry
          row(TRUE, Market("", "", 0, 5000, IsoTime(now + 1)), FALSE, << >>),
          \* a price is absent; everything else would qualify
          row(TRUE, Market("", "", 0, 0, NoTime), TRUE,
              Odds(None, Some(99), IsoTime(now + 1), 1000)),
          row(TRUE, Market("", "", 0, 0, NoTime), TRUE,
              Odds(Some(98), None, IsoTime(now + 1), 1000)),
          \* below the price floor, and no spread, unparseable time, no volume
          row(TRUE, Market("", "", 0, 0, NoTime), TRUE,
              Odds(Some(96), Some(96), BadTime, 0)),
          \* no spread, and closing now, no volume
          row(TRUE, Market("", "", 0, 0, NoTime), TRUE,
              Odds(Some(98), Some(98), IsoTime(now), 0)),
          \* unparseable close time, and no volume
          row(TRUE, Market("", "", 0, 0, NoTime), TRUE,
              Odds(Some(98), Some(99), BadTime, 0)),
          \* closes this very second (the market's close time is the fallback)
          row(TRUE, Market("", "", 1000, 0, IsoTime(now)), TRUE,
              Odds(Some(98), Some(99), NoTime, 0)),
          \* closes one second after a one-hour window
          row(TRUE, Market("", "", 0, 0, NoTime), TRUE,
              Odds(Some(98), Some(99), IsoTime(now + 3601), 1000)),
          \* no volume of its own: qualifies on the event's volume only
          row(TRUE, Market("", "Yes", 0, 0, NoTime), TRUE,
              Odds(Some(98), Some(99), IsoTime(now + 1), 0)),
          \* exactly at the price floor, the spread floor, a one-hour window
          row(TRUE, Market("", "Yes", 1000, 0, NoTime), TRUE,
              Odds(Some(97), Some(98), IsoTime(now + 3600), 0)),
          \* qualifies; the market's close time is the fallback
          row(TRUE, Market("", "No", 0, 1000, IsoTime(now + 1)), TRUE,
              Odds(Some(99), Some(100), NoTime, 999)) }

\* A row with the place it takes in the mapping: whether it opens a new event,
\* and that event's 24h volume.
RowChoices ==
    { [kind |-> k, new_event |-> ne.new, event_volume |-> ne.vol] :
        k \in RowKinds,
        ne \in { [new |-> FALSE, vol |-> 0], [new |-> TRUE, vol |-> 0],
                 [new |-> TRUE, vol |-> 1000] } }

\* The ticker of the market at position k of the input (none for a
\* ticker-less market).
RowTicker(rows, k) == IF rows[k].kind.has_ticker THEN TickerNames[k] ELSE ""

RowMarket(rows, k) == [rows[k].kind.market EXCEPT !.ticker = RowTicker(rows, k)]

RECURSIVE BuildEventMarkets(_, _)
\* The mapping whose markets, in iteration order, are rows[1..k].
BuildEventMarkets(rows, k) ==
    IF k = 0 THEN << >>
    ELSE LET before == BuildEventMarkets(rows, k - 1)
             n == Len(before)
         IN  IF n = 0 \/ rows[k].new_event
             THEN Append(before,
                         [ event_ticker |-> EventNames[n + 1],
                           event |-> [volume_24h |-> rows[k].event_volume],
                           markets |-> <<RowMarket(rows, k)>> ])
             ELSE [before EXCEPT ![n].markets = Append(@, RowMarket(rows, k))]

\* The odds mapping: an entry for every row that has one.
BuildMarketOdds(rows) ==
    LET ks == {k \in 1..Len(rows) : rows[k].kind.has_ticker /\ rows[k].kind.has_odds}
    IN  [t \in {TickerNames[k] : k \in ks} |->
            rows[CHOOSE k \in ks : TickerNames[k] = t].kind.odds ]

\* The configurations the filter is run under: the environment defaults, and
\* a stricter price floor (MIN_YES_PRICE_CENTS is read as any int, config.py
\* line 98).
FilterConfigs ==
    { DefaultConfig, [DefaultConfig EXCEPT !.min_yes_price_cents = 98] }

InitFilter ==
    /\ RunAtRest /\ FetchAtRest /\ NotifyAtRest
    /\ cfg \in FilterConfigs
    /\ telegram_bot_token = FALSE
    /\ telegram_chat_id = FALSE
    /\ telegram_bot = FALSE
    /\ clock = StartSecond * TicksPerSec + (TicksPerSec - 1)
    /\ max_expiration_hours \in {None, Some(1)}
    /\ \E lag \in {0, 1} :
         self_max_close_ts =
            SelfMaxCloseTs(max_expiration_hours, cfg, clock - lag * TicksPerSec)
    /\ \E rows \in SeqsUpTo(RowChoices, MaxFilterMarkets) :
         /\ event_markets = BuildEventMarkets(rows, Len(rows))
         /\ market_odds = BuildMarketOdds(rows)
    /\ gateway = << >>
    /\ f_pc = "entry"
    /\ f_ev = 1
    /\ f_mk = 1
    /\ now_ts = 0
    /\ max_close_ts = None
    /\ total_markets = 0
    /\ rejects = [no_odds |-> 0, price |-> 0, spread |-> 0, expiration |-> 0, volume |-> 0]
    /\ results = << >>

NextFilter ==
    \/ FilterEnter
    \/ FilterMarket
    \/ FilterRank

SpecFilter == InitFilter /\ [][NextFilter]_vars

(***************************************************************************)
(* SpecFetch: the odds fetcher on its own, called on any mapping           *)
(***************************************************************************)
\* The snapshot the gateway holds for each ticker; no two are alike, and
\* that of T3 is below the default price floor.
FetchGateway ==
    [t \in {"T1", "T2", "T3", "T4"} |->
        CASE t = "T1" -> Odds(Some(97), Some(98), IsoTime(StartSecond + 1), 1000)
          [] t = "T2" -> Odds(Some(98), Some(99), IsoTime(StartSecond + 2), 2000)
          [] t = "T3" -> Odds(Some(96), Some(99), IsoTime(StartSecond + 3), 3000)
          [] t = "T4" -> Odds(Some(99), Some(100), IsoTime(StartSecond + 4), 4000)]

\* One market of the fetcher's input: its ticker (possibly none, possibly a
\* repeated one) and whether it opens a new event.
FetchRows ==
    { [ticker |-> t, new_event |-> ne] : t \in {"", "T1", "T2", "T3"}, ne \in BOOLEAN }

RECURSIVE BuildFetchInput(_, _)
BuildFetchInput(rows, k) ==
    IF k = 0 THEN << >>
    ELSE LET before == BuildFetchInput(rows, k - 1)
             n == Len(before)
             m == Market(rows[k].ticker, "", 0, 0, NoTime)
         IN  IF n = 0 \/ rows[k].new_event
             THEN Append(before, [ event_ticker |-> EventNames[n + 1],
                                   event |-> [volume_24h |-> 0],
                                   markets |-> <<m>> ])
             ELSE [before EXCEPT ![n].markets = Append(@, m)]

InitFetch ==
    /\ RunAtRest /\ FilterAtRest /\ NotifyAtRest
    /\ cfg = DefaultConfig
    /\ telegram_bot_token = FALSE
    /\ telegram_chat_id = FALSE
    /\ telegram_bot = FALSE
    /\ clock = StartSecond * TicksPerSec
    /\ max_expiration_hours = None
    /\ self_max_close_ts = None
    /\ \E rows \in SeqsUpTo(FetchRows, MaxFetchMarkets) :
         event_markets = BuildFetchInput(rows, Len(rows))
    /\ gateway = FetchGateway
    /\ o_pc = "entry"
    /\ tickers = << >>
    /\ batch_i = 0
    /\ gather = << >>
    /\ completion = << >>
    /\ calls = << >>
    /\ pauses = 0
    /\ fetch_log = << >>
    /\ market_odds = << >>

NextFetch ==
    \/ FetchEnter
    \/ FetchIssueBatch
    \/ \E k \in 1..Len(gather) : \E response \in Responses(Batch(tickers, batch_i)[k]) :
          FetchSettle(k, response)
    \/ FetchCollect
    \/ FetchWake
    \/ FetchReturn

SpecFetch == InitFetch /\ [][NextFetch]_vars

(***************************************************************************)
(* Spec: one invocation of the program                                     *)
(***************************************************************************)
\* Raw events the gateway can return: three events with markets (the markets
\* of E1 and E4 qualify, that of E2 does not), one without a ticker, one
\* without markets.  T1 and T2 share event and outcome label.
RunEvents ==
    { [ event_ticker |-> "E1", volume_24h |-> 2000,
        markets |-> << Market("T1", "Yes", 0, 0, NoTime), Market("T2", "Yes", 0, 0, NoTime) >> ],
      [ event_ticker |-> "E2", volume_24h |-> 5000,
        markets |-> << Market("T3", "", 0, 0, NoTime) >> ],
      [ event_ticker |-> "E4", volume_24h |-> 1000,
        markets |-> << Market("T4", "No", 0, 0, NoTime) >> ],
      [ event_ticker |-> "", volume_24h |-> 0,
        markets |-> << Market("T3", "", 0, 0, NoTime) >> ],
      [ event_ticker |-> "E3", volume_24h |-> 0, markets |-> << >> ] }

\* What get_events can come back with.
RunAnswers ==
    { [raised |-> FALSE, events |-> l] : l \in SeqsUpTo(RunEvents, MaxRunEvents) }
        \cup { [raised |-> TRUE, events |-> << >>] }

\* The settings an invocation is started with.
RunConfigs ==
    { [DefaultConfig EXCEPT !.max_events_to_analyze = n] : n \in {1, 600} }

Init ==
    /\ r_pc = "main"
    /\ console = << >>
    /\ kalshi_client = "none"
    /\ events = << >>
    /\ cfg \in RunConfigs
    /\ telegram_bot_token \in BOOLEAN
    /\ telegram_chat_id \in BOOLEAN
    /\ telegram_bot = FALSE
    /\ max_expiration_hours = None
    /\ self_max_close_ts = None
    /\ clock = StartSecond * TicksPerSec
    /\ event_markets = << >>
    /\ market_odds = << >>
    /\ gateway = FetchGateway
    /\ FetchAtRest /\ FilterAtRest /\ NotifyAtRest

Next ==
    \/ RunConstruct
    \/ \E login_ok \in BOOLEAN : RunInitialize(login_ok)
    \/ \E answer \in RunAnswers : RunGetTopEvents(answer)
    \/ RunNormalize
    \/ NextFetch
    \/ RunAfterFetch
    \/ NextFilter
    \/ RunAfterFilter
    \/ NextNotify
    \/ RunAfterNotify

Spec == Init /\ [][Next]_vars

(***************************************************************************)
(* SpecNormalize: the normalizer on any list of raw events, any cap        *)
(* (MAX_MARKETS_PER_EVENT is read as any int, config.py line 96: -1 too)   *)
(***************************************************************************)
\* Raw events: with or without a ticker, two tickers, and zero to three
\* markets that can be told apart.
NormEvents ==
    LET m(t) == Market(t, "", 0, 0, NoTime)
    IN  { [event_ticker |-> e, volume_24h |-> 0, markets |-> ms] :
            e \in {"", "E1", "E2"},
            ms \in { << >>, <<m("T1")>>, <<m("T2"), m("T1")>>,
                     <<m("T1"), m("T2"), m("T3")>> } }

InitNormalize ==
    /\ r_pc = "normalize"
    /\ console = << >>
    /\ kalshi_client = "open"
    /\ events \in SeqsUpTo(NormEvents, MaxNormEvents) \ {<< >>}
    /\ \E K \in (0 - 1)..MaxK : cfg = [DefaultConfig EXCEPT !.max_markets_per_event = K]
    /\ telegram_bot_token = FALSE
    /\ telegram_chat_id = FALSE
    /\ telegram_bot = FALSE
    /\ max_expiration_hours = None
    /\ self_max_close_ts = None
    /\ clock = StartSecond * TicksPerSec
    /\ event_markets = << >>
    /\ market_odds = << >>
    /\ gateway = << >>
    /\ FetchAtRest /\ FilterAtRest /\ NotifyAtRest

NextNormalize == RunNormalize

SpecNormalize == InitNormalize /\ [][NextNormalize]_vars

(***************************************************************************)
(* SpecRoi: the filter on one market, for every bid and several floors     *)
(***************************************************************************)
\* Price floors: none, the smallest, the Field default (config.py line 69)
\* and the default of the environment variable (config.py line 98).
RoiFloors == {0, 1, 90, 97}

InitRoi ==
    /\ RunAtRest /\ FetchAtRest /\ NotifyAtRest
    /\ \E floor \in RoiFloors : cfg = [DefaultConfig EXCEPT !.min_yes_price_cents = floor]
    /\ telegram_bot_token = FALSE
    /\ telegram_chat_id = FALSE
    /\ telegram_bot = FALSE
    /\ max_expiration_hours = None
    /\ clock = StartSecond * TicksPerSec
    /\ self_max_close_ts = SelfMaxCloseTs(None, cfg, clock)
    /\ event_markets =
          << [ event_ticker |-> "E1", event |-> [volume_24h |-> 1000],
               markets |-> << Market("T1", "Yes", 0, 0, NoTime) >> ] >>
    /\ \E bid \in 0..MaxBid :
          market_odds = [t \in {"T1"} |->
              Odds(Some(bid), Some(bid + 1), IsoTime(StartSecond + 1), 0)]
    /\ gateway = << >>
    /\ f_pc = "entry"
    /\ f_ev = 1
    /\ f_mk = 1
    /\ now_ts = 0
    /\ max_close_ts = None
    /\ total_markets = 0
    /\ rejects = [no_odds |-> 0, price |-> 0, spread |-> 0, expiration |-> 0, volume |-> 0]
    /\ results = << >>

SpecRoi == InitRoi /\ [][NextFilter]_vars

(***************************************************************************)
(* SpecTwice: the filter called twice on the same inputs, the clock frozen *)
(***************************************************************************)
InitTwice ==
    /\ r_pc = "first"
    /\ console = << >>
    /\ kalshi_client = "none"
    /\ events = << >>
    /\ FetchAtRest /\ NotifyAtRest
    /\ cfg = DefaultConfig
    /\ telegram_bot_token = FALSE
    /\ telegram_chat_id = FALSE
    /\ telegram_bot = FALSE
    /\ clock = StartSecond * TicksPerSec + (TicksPerSec - 1)
    /\ max_expiration_hours \in {None, Some(1)}
    /\ \E lag \in {0, 1} :
         self_max_close_ts =
            SelfMaxCloseTs(max_expiration_hours, cfg, clock - lag * TicksPerSec)
    /\ \E rows \in SeqsUpTo(RowChoices, MaxFilterMarkets) :
         /\ event_markets = BuildEventMarkets(rows, Len(rows))
         /\ market_odds = BuildMarketOdds(rows)
    /\ gateway = << >>
    /\ f_pc = "entry"
    /\ f_ev = 1
    /\ f_mk = 1
    /\ now_ts = 0
    /\ max_close_ts = None
    /\ total_markets = 0
    /\ rejects = [no_odds |-> 0, price |-> 0, spread |-> 0, expiration |-> 0, volume |-> 0]
    /\ results = << >>

\* The caller keeps the list the first call returned (as run() does at line
\* 457) and calls the filter again with the same arguments.
FilterAgain ==
    /\ r_pc = "first"
    /\ f_pc = "done"
    /\ qualifying_markets' = results
    /\ r_pc' = "second"
    /\ f_pc' = "entry"
    /\ UNCHANGED <<console, kalshi_client, events, cfgVars, clock, event_markets,
                   fetchVars, f_ev, f_mk, now_ts, max_close_ts, total_markets,
                   rejects, results, n_pc, top_n, seen_pairs, sent, n_idx, attempts>>

NextTwice ==
    \/ NextFilter /\ clock' = clock
    \/ FilterAgain

SpecTwice == InitTwice /\ [][NextTwice]_vars

(***************************************************************************)
(* SpecWindow: main and __init__ with and without the override, then the   *)
(* filter on one market that closes around the end of a window             *)
(***************************************************************************)
\* Seconds from the invocation to the market's close: just inside and just
\* outside windows of 1 hour, MaxOverride hours and the configured 24 hours.
CloseOffsets == {1, 3600, 3601, MaxOverride * 3600, MaxOverride * 3600 + 1, 86400, 86401}

InitWindow ==
    /\ r_pc = "main"
    /\ console = << >>
    /\ kalshi_client = "none"
    /\ events = << >>
    /\ cfg = DefaultConfig
    /\ telegram_bot_token = FALSE
    /\ telegram_chat_id = FALSE
    /\ telegram_bot = FALSE
    /\ max_expiration_hours \in {None} \cup {Some(h) : h \in (0 - 1)..MaxOverride}
    /\ self_max_close_ts = None
    /\ clock = StartSecond * TicksPerSec
    /\ event_markets =
          << [ event_ticker |-> "E1", event |-> [volume_24h |-> 1000],
               markets |-> << Market("T1", "Yes", 0, 0, NoTime) >> ] >>
    /\ \E offset \in CloseOffsets :
          market_odds = [t \in {"T1"} |->
              Odds(Some(98), Some(99), IsoTime(StartSecond + offset), 0)]
    /\ gateway = << >>
    /\ FetchAtRest /\ FilterAtRest /\ NotifyAtRest

\* The bot is constructed; the filter is called on the loaded odds (line
\* 457) at once or a second later.
WindowCallFilter ==
    /\ r_pc = "initialize"
    /\ r_pc' = "filtering"
    /\ f_pc' = "entry"
    /\ \E lag \in {0, 1} : clock' = clock + lag * TicksPerSec
    /\ UNCHANGED <<console, kalshi_client, events, cfgVars, event_markets, fetchVars,
                   notifyVars, f_ev, f_mk, now_ts, max_close_ts, total_markets,
                   rejects, results>>

NextWindow ==
    \/ RunConstruct
    \/ WindowCallFilter
    \/ NextFilter

SpecWindow == InitWindow /\ [][NextWindow]_vars

(***************************************************************************)
(* Claims                                                                  *)
(***************************************************************************)
\* The candidate a send attempt was made for.
Attempted(k) == qualifying_markets[attempts[k].idx]

\* The dedup key as the specification words it: the event ticker with the
\* outcome label, or with the ticker when there is no outcome label.
StatedKey(c) ==
    IF c.market_subtitle = ""
    THEN [event |-> c.event_ticker, outcome |-> "", ticker |-> c.ticker]
    ELSE [event |-> c.event_ticker, outcome |-> c.market_subtitle, ticker |-> ""]

\* C1: in one run of the notification stage the number of successful sends
\* is at most max_notifications_per_run, for every cap N >= 0 (N = 0 included).
C1_SentAtMostCap ==
    sent <= cfg.max_notifications_per_run

\* C2: no two messages emitted in one run of the notification stage have the
\* same dedup key (event ticker, outcome label or else ticker).
C2_NoDuplicateKey ==
    \A i, j \in 1..Len(attempts) :
        i < j => StatedKey(Attempted(i)) # StatedKey(Attempted(j))

\* C2 witness: a finished run in which a later candidate repeated the key of
\* an earlier, attempted one, and the loop went on to attempt a third.
C2_Witness ==
    /\ n_pc = "done"
    /\ Len(attempts) >= 2
    /\ \E i, j \in 1..Len(qualifying_markets) :
         /\ i < j
         /\ j < attempts[Len(attempts)].idx
         /\ StatedKey(qualifying_markets[i]) = StatedKey(qualifying_markets[j])
         /\ \E k \in 1..Len(attempts) : attempts[k].idx = i

\* C3: only successful sends count toward the N-limit.  A delivery failure
\* leaves the counter unchanged and the loop goes on to the next candidate;
\* no send is attempted once N successes have been reached; while fewer than
\* N successes have occurred every candidate with an unseen key is attempted;
\* and the loop stops only when N successes are reached or no candidate is left.
C3_SuccessOnlyCounting ==
    [][ LET N       == cfg.max_notifications_per_run
            tried   == Len(attempts') = Len(attempts) + 1
            outcome == attempts'[Len(attempts')].outcome
        IN  /\ (tried /\ outcome = "TelegramError")
                  => (sent' = sent /\ n_pc' = "loop" /\ n_idx' = n_idx + 1)
            /\ (tried /\ outcome = "ok") => sent' = sent + 1
            /\ tried => sent < N
            /\ ( /\ n_pc = "loop"
                 /\ n_idx <= Len(qualifying_markets)
                 /\ DedupKey(qualifying_markets[n_idx]) \notin seen_pairs
                 /\ sent < N ) => tried
            /\ (n_pc = "loop" /\ n_pc' = "done")
                  => (sent' = N \/ n_idx' >= Len(qualifying_markets))
      ]_vars

\* The statement of C3 with the cap taken to be at least one.
C3_ForPositiveCap ==
    [][ cfg.max_notifications_per_run >= 1 =>
        LET N       == cfg.max_notifications_per_run
            tried   == Len(attempts') = Len(attempts) + 1
            outcome == attempts'[Len(attempts')].outcome
        IN  /\ (tried /\ outcome = "TelegramError")
                  => (sent' = sent /\ n_pc' = "loop" /\ n_idx' = n_idx + 1)
            /\ (tried /\ outcome = "ok") => sent' = sent + 1
            /\ tried => sent < N
            /\ ( /\ n_pc = "loop"
                 /\ n_idx <= Len(qualifying_markets)
                 /\ DedupKey(qualifying_markets[n_idx]) \notin seen_pairs
                 /\ sent < N ) => tried
            /\ (n_pc = "loop" /\ n_pc' = "done")
                  => (sent' = N \/ n_idx' >= Len(qualifying_markets))
      ]_vars

(***************************************************************************)
(* Claims about the qualification filter                                   *)
(***************************************************************************)
SumRejects(r) == r.no_odds + r.price + r.spread + r.expiration + r.volume

\* Every market of the mapping with the event it belongs to.
AllMarkets ==
    UNION { { [event |-> event_markets[e], market |-> event_markets[e].markets[k]] :
                k \in 1..Len(event_markets[e].markets) } :
            e \in 1..Len(event_markets) }

RECURSIVE CountWithTicker(_)
\* The number of markets of a list that have a ticker.
CountWithTicker(ms) ==
    IF ms = << >> THEN 0
    ELSE (IF ms[1].ticker # "" THEN 1 ELSE 0) + CountWithTicker(Tail(ms))

RECURSIVE MarketsConsidered(_)
\* The markets the filter considers: those of the mapping that have a ticker.
MarketsConsidered(ems) ==
    IF ems = << >> THEN 0
    ELSE CountWithTicker(ems[1].markets) + MarketsConsidered(Tail(ems))

\* The latest close timestamp the invocation allows, as the specification
\* states it: the explicit override, else now + the configured window.
StatedMaxCloseTs ==
    IF ~IsNone(max_expiration_hours)
    THEN Val(self_max_close_ts)
    ELSE now_ts + cfg.max_hours_to_close * 3600

\* The predicate (by its counter's name) that a market with a ticker fails
\* first, in the order existence, price, spread, expiration, volume; "none"
\* when it passes all five.  m is an element of AllMarkets.
FirstFailed(m) ==
    LET t == m.market.ticker
        o == market_odds[t]
        close == IF o.close_time.kind # "absent" THEN o.close_time ELSE m.market.close_time
    IN  IF t \notin DOMAIN market_odds THEN "no_odds"
        ELSE IF o.yes_bid = None \/ o.yes_ask = None THEN "no_odds"
        ELSE IF o.yes_bid[1] < cfg.min_yes_price_cents THEN "price"
        ELSE IF o.yes_ask[1] - o.yes_bid[1] < cfg.min_spread_cents THEN "spread"
        ELSE IF close.kind # "iso" THEN "expiration"
        ELSE IF ~(now_ts < close.secs /\ close.secs <= StatedMaxCloseTs) THEN "expiration"
        ELSE IF Max(Max(m.event.event.volume_24h, m.market.volume_24h),
                    Max(m.market.volume, o.volume)) < cfg.min_volume_24h THEN "volume"
        ELSE "none"

\* C4: after the filter has run, the five rejection counters plus the number
\* of returned candidates add up to the number of markets considered, which
\* leaves out the markets without a ticker and is the total of the summary.
C4_TallyExhaustive ==
    f_pc = "done" =>
        /\ SumRejects(rejects) + Len(results) = MarketsConsidered(event_markets)
        /\ total_markets = MarketsConsidered(event_markets)

\* C5: every candidate the filter returns belongs to a market whose yes-bid
\* and yes-ask are both set, with yes_bid >= min_yes_price_cents,
\* yes_ask - yes_bid >= min_spread_cents, now_ts < close_ts <= max close
\* timestamp, and max(event 24h volume, market volume_24h, market volume,
\* odds volume) >= min_volume_24h: no market failing a predicate is emitted.
C5_CandidatesQualify ==
    \A i \in 1..Len(results) :
        \E m \in AllMarkets :
            /\ m.market.ticker = results[i].ticker
            /\ m.event.event_ticker = results[i].event_ticker
            /\ FirstFailed(m) = "none"
            /\ results[i].yes_bid = market_odds[m.market.ticker].yes_bid[1]
            /\ results[i].yes_ask = market_odds[m.market.ticker].yes_ask[1]
            /\ results[i].yes_bid >= cfg.min_yes_price_cents
            /\ results[i].yes_ask - results[i].yes_bid >= cfg.min_spread_cents
            /\ now_ts < results[i].close_ts
            /\ results[i].close_ts <= StatedMaxCloseTs
            /\ Max(results[i].event_volume_24h, results[i].market_volume)
                  >= cfg.min_volume_24h

\* C5 witness: the filter has returned a candidate sitting exactly on the
\* price floor, the spread floor and the end of the window, after rejecting
\* another market.
C5_Witness ==
    /\ f_pc = "done"
    /\ SumRejects(rejects) >= 1
    /\ \E i \in 1..Len(results) :
         /\ results[i].yes_bid = cfg.min_yes_price_cents
         /\ results[i].spread = cfg.min_spread_cents
         /\ results[i].close_ts = StatedMaxCloseTs

\* C6: each market with a ticker that is not emitted increments exactly one
\* counter, that of the first predicate it fails (a missing odds entry or an
\* absent price counts as no_odds, an unparseable close time as expiration);
\* an emitted market increments none.
C6_FirstFailedCounted ==
    [][ (f_pc = "loop" /\ f_ev <= Len(event_markets) /\ CurMarket.ticker # "") =>
        LET failed == FirstFailed([event |-> CurEvent, market |-> CurMarket])
        IN  IF failed = "none"
            THEN rejects' = rejects /\ Len(results') = Len(results) + 1
            ELSE rejects' = [rejects EXCEPT ![failed] = @ + 1] /\ results' = results
      ]_vars

\* The statement of C6 for the markets whose odds carry both prices.
C6_WhenPricesPresent ==
    [][ ( /\ f_pc = "loop" /\ f_ev <= Len(event_markets) /\ CurMarket.ticker # ""
          /\ (HasOdds(CurMarket.ticker) =>
                 CurOdds.yes_bid # None /\ CurOdds.yes_ask # None) ) =>
        LET failed == FirstFailed([event |-> CurEvent, market |-> CurMarket])
        IN  IF failed = "none"
            THEN rejects' = rejects /\ Len(results') = Len(results) + 1
            ELSE rejects' = [rejects EXCEPT ![failed] = @ + 1] /\ results' = results
      ]_vars

(***************************************************************************)
(* Claims about the odds fetcher                                           *)
(***************************************************************************)
\* The getOdds calls that have not settled yet.
Outstanding == {p \in 1..Len(calls) : calls[p].state = "pending"}

\* The tickers of the calls that came back with a non-empty result.
Succeeded == {calls[p].ticker : p \in {q \in 1..Len(calls) : calls[q].state = "ok"}}

\* The calls that raised or came back empty, by call position.
FailedCalls == {p \in 1..Len(calls) : calls[p].state \in {"raise", "empty"}}

\* C7: whatever subset of the getOdds calls raise or return nothing, the
\* fetcher is never stuck before it returns, every ticker of the list has
\* been fetched when it returns, and the odds map then holds exactly the
\* tickers that had a successful, non-empty response.
C7_PartialFailureTolerated ==
    /\ o_pc # "done" => ENABLED NextFetch
    /\ o_pc = "done" =>
         /\ Len(calls) = Len(tickers)
         /\ \A p \in 1..Len(calls) :
               calls[p].ticker = tickers[p] /\ calls[p].state # "pending"
         /\ DOMAIN market_odds = Succeeded

\* C7 witness: the fetcher has returned after a call failed, a later call of
\* the same batch and a call of a later batch succeeded, and the map holds
\* one entry per ticker less the failures.
C7_Witness ==
    /\ o_pc = "done"
    /\ \E p, q, r \in 1..Len(calls) :
         /\ p < q /\ q < r
         /\ calls[p].batch = calls[q].batch /\ calls[q].batch < calls[r].batch
         /\ calls[p].state = "raise" /\ calls[q].state = "ok" /\ calls[r].state = "ok"
    /\ Cardinality(DOMAIN market_odds) = Len(tickers) - Cardinality(FailedCalls)
    /\ FailedCalls # {}

\* C8: at every moment at most batch_size getOdds calls are outstanding and
\* they all belong to the batch that follows the last completed pause: no
\* call of a batch is issued before the batch before it has settled and the
\* pause after it has elapsed.
C8_OneBatchOutstanding ==
    /\ Cardinality(Outstanding) <= batch_size
    /\ \A p \in Outstanding :
         /\ calls[p].batch = pauses * batch_size
         /\ \A q \in 1..Len(calls) :
               calls[q].batch < calls[p].batch => calls[q].state # "pending"

\* C8 witness: a call of the second batch is outstanding after a full first
\* batch (batch_size calls) has settled and one pause has elapsed.
C8_Witness ==
    /\ pauses = 1
    /\ Outstanding # {}
    /\ Cardinality({q \in 1..Len(calls) : calls[q].batch = 0}) = batch_size
    /\ \A q \in 1..Len(calls) : calls[q].batch = 0 => calls[q].state # "pending"

\* C9: whatever the completion order within a batch, the odds recorded under
\* a ticker are the snapshot returned by the call issued for that ticker, and
\* the failures reported are those of the tickers whose calls failed.
C9_ResultsMatchTickers ==
    /\ \A t \in DOMAIN market_odds :
          market_odds[t] = gateway[t] /\ t \in Succeeded
    /\ o_pc \in {"sleep", "issue", "done"} =>
          /\ Len(fetch_log) = Cardinality(FailedCalls)
          /\ \A p \in FailedCalls :
                fetch_log[Cardinality({q \in FailedCalls : q <= p})] = calls[p].ticker

\* C9 witness: a batch whose second call completed before its first has been
\* collected, the first having succeeded and the second having failed.
C9_Witness ==
    /\ o_pc = "sleep"
    /\ completion = <<2, 1>>
    /\ LET batch == Batch(tickers, batch_i)
       IN  /\ batch[1] # batch[2]
           /\ batch[1] \in DOMAIN market_odds
           /\ batch[2] \notin DOMAIN market_odds
           /\ fetch_log # << >>
           /\ fetch_log[Len(fetch_log)] = batch[2]

\* The run leaves through an early exit: Aborted, the client closed, nothing
\* reported as an error.
ExitsEarly ==
    /\ r_pc' = "aborted"
    /\ kalshi_client' = "closed"
    /\ console'[Len(console')] # "Error"

\* The step of run() that follows an empty list of events, an empty
\* normalized mapping, or an empty odds map.
AfterNoEvents == r_pc = "get_events" /\ r_pc' # r_pc /\ events' = << >>
AfterNoMarkets == r_pc = "normalize" /\ r_pc' # r_pc /\ event_markets' = << >>
AfterNoOdds == r_pc = "fetching" /\ r_pc' # r_pc /\ DOMAIN market_odds = {}
AfterNoCandidates == r_pc = "filtering" /\ r_pc' # r_pc /\ results = << >>

\* The first three empty results end the run at once, every later stage
\* left untouched.
EarlyExits ==
    /\ AfterNoEvents => ExitsEarly /\ o_pc' = "idle" /\ f_pc' = "idle" /\ n_pc' = "idle"
    /\ AfterNoMarkets => ExitsEarly /\ o_pc' = "idle" /\ f_pc' = "idle" /\ n_pc' = "idle"
    /\ AfterNoOdds => ExitsEarly /\ f_pc' = "idle" /\ n_pc' = "idle"

\* C10 as stated: each of the four empty results (no events, no markets
\* after normalization, empty odds map, no qualifying candidates) takes the
\* run from the stage that produced it to a reported early exit, no later
\* stage executing, and the run ends without an error.
C10_EmptyResultAborts ==
    [][ /\ EarlyExits
        /\ AfterNoCandidates => ExitsEarly /\ n_pc' = "idle" ]_vars

\* C10 amended: no events, no markets after normalization and an empty odds
\* map each take the run to a reported early exit with no later stage
\* executing; with no qualifying candidates the run goes on to the notifier,
\* which attempts no delivery and raises nothing, and the run ends as a
\* completed run.  In all four cases the run ends without an error.
C10_EmptyResultExits ==
    [][ /\ EarlyExits
        /\ AfterNoCandidates =>
              r_pc' = "notifying" /\ n_pc' = "entry" /\ qualifying_markets' = << >>
        /\ (r_pc = "notifying" /\ qualifying_markets = << >>) =>
              /\ attempts' = << >>
              /\ n_pc' \in {"entry", "done"}
              /\ r_pc' \in {"notifying", "done"}
              /\ r_pc' = "done" =>
                    /\ kalshi_client' = "closed"
                    /\ console'[Len(console')] = "Run complete" ]_vars

\* C10 witness: odds were loaded, the filter kept nothing, the notifier ran
\* with Telegram configured and sent nothing, and the run completed.
C10_Witness ==
    /\ r_pc = "done"
    /\ DOMAIN market_odds # {}
    /\ f_pc = "done"
    /\ results = << >>
    /\ n_pc = "done"
    /\ telegram_bot
    /\ attempts = << >>
    /\ console[Len(console)] = "Run complete"

\* The run ends in the reported error outcome with no stage after the
\* gateway's executed and no notification attempted.
FailsFatally ==
    /\ r_pc' = "failed"
    /\ console'[Len(console')] = "Error"
    /\ o_pc' = "idle" /\ f_pc' = "idle" /\ n_pc' = "idle"
    /\ attempts' = << >>

\* The step in which login fails, and the step in which listEvents raises
\* (get_top_events reports the exception on the console, line 91).
LoginFails == r_pc = "initialize" /\ r_pc' \notin {"initialize", "get_events"}
ListEventsRaises ==
    /\ r_pc = "get_events"
    /\ \E k \in 1..Len(console') : console'[k] = "Error fetching events"

\* C11: a failed login and a raising listEvents are both fatal: the run ends
\* at once in the reported error outcome, which is not the 'no events' early
\* exit; no later stage runs and nothing is sent.
C11_GatewayFailureFatal ==
    [][ /\ LoginFails => FailsFatally
        /\ ListEventsRaises => FailsFatally /\ r_pc' # "aborted" ]_vars

\* C11, the part that holds: a failed login is fatal.
C11_LoginFailureFatal == [][ LoginFails => FailsFatally ]_vars

\* Some delivery failed with an exception of one of these kinds.
FailedWith(kinds) == \E k \in 1..Len(attempts) : attempts[k].outcome \in kinds

\* A failed delivery was absorbed: nothing raised to run(), the run did not
\* end in an error, and the notifier returned only after every candidate was
\* attempted or passed over, or after the cap was reached.
FailureRecovered ==
    /\ n_pc \in {"loop", "done"}
    /\ r_pc # "failed"
    /\ r_pc \in {"done", "aborted"} => r_pc = "done"
    /\ n_pc = "done" =>
          \/ sent >= top_n
          \/ \A k \in 1..Len(qualifying_markets) :
                DedupKey(qualifying_markets[k]) \in seen_pairs

\* C12: a failed delivery, whatever the channel client raised, never reaches
\* run(): the remaining candidates are still attempted and the run ends Done.
C12_DeliveryFailureRecovered ==
    FailedWith({"TelegramError", "Exception"}) => FailureRecovered

\* C12, the part that holds: a TelegramError is recovered.
C12_TelegramErrorRecovered ==
    (FailedWith({"TelegramError"}) /\ ~FailedWith({"Exception"})) => FailureRecovered

\* b holds the elements of a, each as often as a does.
IsPermutation(a, b) ==
    /\ Len(a) = Len(b)
    /\ \E p \in [1..Len(a) -> 1..Len(a)] :
          /\ \A i, j \in 1..Len(a) : p[i] = p[j] => i = j
          /\ \A i \in 1..Len(a) : b[i] = a[p[i]]

\* The list is in ranking order: greater ROI percent first, and for equal
\* ROI percents the smaller hours_to_close first.
IsRanked(list) ==
    \A i, j \in 1..Len(list) :
        /\ FLess(list[j].roi_pct, list[i].roi_pct) => i < j
        /\ (list[i].roi_pct = list[j].roi_pct
              /\ list[i].hours_to_close < list[j].hours_to_close) => i < j

\* The step that ranks: the filter's loops are over and it returns.
Ranks == f_pc = "loop" /\ f_pc' = "done"

\* C13: the ranked output is ordered by ROI percent, greater first, then by
\* hours_to_close, smaller first, and it is a permutation of the candidates
\* the filter kept: nothing is dropped or truncated.
C13_RankedTotalOrder ==
    [][ Ranks => IsRanked(results') /\ IsPermutation(results, results') ]_vars

\* C13 witness: the filter has returned two candidates of different ROI
\* percent, the one kept second (from the later market) ranked first.
C13_Witness ==
    /\ f_pc = "done"
    /\ Len(results) = 2
    /\ FLess(results[2].roi_pct, results[1].roi_pct)
    /\ \E m1, m2 \in AllMarkets :
          /\ m1.market.ticker = results[1].ticker
          /\ m2.market.ticker = results[2].ticker
          /\ \E e1, e2 \in 1..Len(event_markets) :
                /\ event_markets[e1] = m1.event
                /\ event_markets[e2] = m2.event
                /\ e2 < e1

\* No getOdds call is made for an empty ticker.
NoEmptyTickerFetched == \A p \in 1..Len(calls) : calls[p].ticker # ""

\* C14: getOdds is called exactly once per distinct ticker of the mapping,
\* also when a ticker occurs in several market records or under several
\* events, and never for an empty ticker.
C14_OncePerDistinctTicker ==
    /\ NoEmptyTickerFetched
    /\ \A p, q \in 1..Len(calls) : calls[p].ticker = calls[q].ticker => p = q
    /\ o_pc = "done" =>
          {calls[p].ticker : p \in 1..Len(calls)} =
              {m.market.ticker : m \in AllMarkets} \ {""}

\* C14, the part that holds: one call per occurrence of a non-empty ticker,
\* in iteration order.
C14_OncePerOccurrence ==
    /\ NoEmptyTickerFetched
    /\ o_pc = "done" => [p \in 1..Len(calls) |-> calls[p].ticker] = CollectTickers(event_markets)

\* The notifier was called without a token, without a chat id, or with no
\* candidate.
NothingToNotify ==
    /\ n_pc # "idle"
    /\ ~telegram_bot_token \/ ~telegram_chat_id \/ qualifying_markets = << >>

\* C15: called with the channel not configured (no token or no chat id) or
\* with zero candidates, the notifier makes no send call and changes nothing
\* of its own, and the run completes normally.
C15_NotifierNoOp ==
    NothingToNotify =>
        /\ attempts = << >> /\ sent = 0 /\ seen_pairs = {}
        /\ n_pc \in {"entry", "done"}
        /\ r_pc \in {"notifying", "done"}
        /\ r_pc = "notifying" => ENABLED (NotifyEnter \/ RunAfterNotify)
        /\ r_pc = "done" => console[Len(console)] = "Run complete"

\* C15 witness: a run with candidates and a token but no chat id has
\* completed without a send call.
C15_Witness ==
    /\ r_pc = "done"
    /\ telegram_bot_token /\ ~telegram_chat_id
    /\ qualifying_markets # << >>
    /\ attempts = << >>

\* What the specification says of the normalizer's output out for the raw
\* events raw and the cap K.
StatedNormalized(raw, out, K) ==
    /\ \A i, j \in 1..Len(out) : out[i].event_ticker = out[j].event_ticker => i = j
    /\ \A i \in 1..Len(out) :
          /\ out[i].event_ticker # ""
          /\ out[i].markets # << >>
          /\ Len(out[i].markets) <= K
          /\ \E k \in 1..Len(raw) :
                /\ raw[k].event_ticker = out[i].event_ticker
                /\ out[i].event.volume_24h = raw[k].volume_24h
                /\ out[i].markets =
                      SubSeq(raw[k].markets, 1, Min(K, Len(raw[k].markets)))
    /\ \A k \in 1..Len(raw) :
          (raw[k].event_ticker # "" /\ raw[k].markets # << >> /\ K >= 1) =>
              \E i \in 1..Len(out) : out[i].event_ticker = raw[k].event_ticker

\* C16: for any raw events and any cap K, the normalizer maps an event
\* ticker to at most K markets, the first min(K, n) markets of that event in
\* their order; an event without a usable ticker or without markets has no
\* entry; the raw events are left as they were.
C16_NormalizerAnyCap ==
    [][ (r_pc = "normalize" /\ r_pc' # r_pc) =>
            /\ events' = events
            /\ StatedNormalized(events, event_markets', cfg.max_markets_per_event) ]_vars

\* C16, the part that holds: the same for every cap K >= 0.
C16_NormalizerOutput ==
    [][ (r_pc = "normalize" /\ r_pc' # r_pc /\ cfg.max_markets_per_event >= 0) =>
            /\ events' = events
            /\ StatedNormalized(events, event_markets', cfg.max_markets_per_event) ]_vars

\* A run of the normalizer with a cap K >= 0 that cut an event of three
\* markets down to the cap and dropped an event without a ticker.
C16_Witness ==
    /\ r_pc = "fetching"
    /\ cfg.max_markets_per_event >= 0
    /\ Len(events) = 2 /\ Len(event_markets) = 1
    /\ \E k \in 1..2 : events[k].event_ticker = ""
    /\ \E k \in 1..2 :
          /\ events[k].event_ticker = event_markets[1].event_ticker
          /\ Len(events[k].markets) = 3
          /\ Len(event_markets[1].markets) = cfg.max_markets_per_event

\* The float after x and the float before x, for x > 0.
FSucc(x) ==
    IF \A k \in 1..Precision : x.m[k] = 1
    THEN [e |-> x.e + 1, m |-> [k \in 1..Precision |-> IF k = 1 THEN 1 ELSE 0]]
    ELSE [e |-> x.e, m |-> Increment(x.m)]
FPred(x) ==
    IF \A k \in 2..Precision : x.m[k] = 0
    THEN [e |-> x.e - 1, m |-> [k \in 1..Precision |-> 1]]
    ELSE LET last == CHOOSE k \in 1..Precision :
                         x.m[k] = 1 /\ \A j \in (k + 1)..Precision : x.m[j] = 0
         IN  [e |-> x.e,
              m |-> [k \in 1..Precision |->
                        IF k < last THEN x.m[k] ELSE IF k = last THEN 0 ELSE 1]]

\* roi_pct * yes_bid == roi_cents * 100, as Python evaluates it.
RoiIdentity(c) == FMulInt(c.roi_pct, c.yes_bid) = FromInt(c.roi_cents * 100)

\* C17: for every emitted candidate roi_cents = max(0, 100 - yes_bid),
\* roi_pct * yes_bid = roi_cents * 100 exactly, and yes_bid > 0.
C17_RoiExact ==
    \A i \in 1..Len(results) :
        /\ results[i].roi_cents = Max(0, 100 - results[i].yes_bid)
        /\ RoiIdentity(results[i])
        /\ results[i].yes_bid > 0

\* C17 amended: for every emitted candidate roi_cents = max(0, 100 -
\* yes_bid) and yes_bid is at least the configured price floor, which need
\* not be positive; roi_pct is a float, 0 for a bid of 0, and otherwise
\* roi_pct * yes_bid evaluates to roi_cents * 100 or to one of the two
\* floats next to it, and to roi_cents * 100 itself for bids of 97 and more.
C17_RoiRounded ==
    \A i \in 1..Len(results) :
        LET c == results[i]
            back == FMulInt(c.roi_pct, c.yes_bid)
            exact == FromInt(c.roi_cents * 100)
        IN  /\ c.roi_cents = Max(0, 100 - c.yes_bid)
            /\ c.yes_bid >= cfg.min_yes_price_cents
            /\ c.yes_bid = 0 => c.roi_pct = FZero
            /\ c.roi_cents = 0 => c.roi_pct = FZero
            /\ (c.yes_bid > 0 /\ c.roi_cents > 0) =>
                  back \in {FPred(exact), exact, FSucc(exact)}
            /\ c.yes_bid >= 97 => RoiIdentity(c)

\* C17 witness: the filter has emitted a candidate with a bid of 96 cents,
\* for which the product misses 400 by one unit in the last place.
C17_Witness ==
    /\ f_pc = "done"
    /\ Len(results) = 1
    /\ results[1].yes_bid = 96
    /\ ~RoiIdentity(results[1])

\* C18: called twice on the same mapping and the same odds with the clock
\* frozen, the filter returns the same ranked list both times: the same
\* candidates with the same field values in the same order.
C18_FilterIdempotent ==
    (r_pc = "second" /\ f_pc = "done") => results = qualifying_markets

\* C18 witness: the second call has returned two candidates that ranking
\* had to put in order.
C18_Witness ==
    /\ r_pc = "second"
    /\ f_pc = "done"
    /\ Len(results) = 2
    /\ FLess(results[2].roi_pct, results[1].roi_pct)
    /\ rejects = [no_odds |-> 0, price |-> 0, spread |-> 0, expiration |-> 0, volume |-> 0]

\* The filter has set up its window (line 172).
WindowApplied == r_pc = "filtering" /\ f_pc \in {"loop", "done"}

\* The one market of the mapping was kept.
Kept == f_pc = "done" /\ results # << >>

\* The close timestamp of the one market.
TheClose == market_odds["T1"].close_time.secs

\* C19: with the override supplied, the latest close time the filter allows
\* is the invocation's time plus override * 3600 seconds, for every override
\* value; without it, the invocation's time plus the configured window.
C19_OverrideWindow ==
    WindowApplied =>
        LET hours == IF IsNone(max_expiration_hours)
                     THEN cfg.max_hours_to_close
                     ELSE Val(max_expiration_hours)
        IN  /\ max_close_ts = Some(StartSecond + hours * 3600)
            /\ Kept => TheClose <= StartSecond + hours * 3600

\* C19 amended: with the override supplied, the latest close time the filter
\* allows is the invocation's time plus max(1, override) * 3600 seconds, so
\* an override below one hour gives a one-hour window; the configured window
\* is not used.  Without the override it is the invocation's time plus the
\* configured window.  The market is kept exactly when it closes after the
\* filter's own reading of the clock and not after that latest close time.
C19_OverrideWindowAtLeastOneHour ==
    WindowApplied =>
        LET hours == IF IsNone(max_expiration_hours)
                     THEN cfg.max_hours_to_close
                     ELSE Max(1, Val(max_expiration_hours))
        IN  /\ max_close_ts = Some(StartSecond + hours * 3600)
            /\ f_pc = "done" =>
                  (Kept <=> (now_ts < TheClose /\ TheClose <= StartSecond + hours * 3600))

\* C19 witness: invoked with an override of 0 hours, the filter has kept a
\* market that closes one hour after the invocation.
C19_Witness ==
    /\ max_expiration_hours = Some(0)
    /\ Kept
    /\ TheClose = StartSecond + 3600

\* The place in list of the candidate of this ticker.
PlaceOf(list, ticker) == CHOOSE k \in 1..Len(list) : list[k].ticker = ticker

\* Ranking keeps the order of emission of every two candidates that agree
\* on ROI percent and on the field given by same.
KeepsOrderOfTies(same(_, _)) ==
    \A i, j \in 1..Len(results) :
        (i < j /\ results[i].roi_pct = results[j].roi_pct /\ same(results[i], results[j]))
            => PlaceOf(results', results[i].ticker) < PlaceOf(results', results[j].ticker)

SameCloseTs(a, b) == a.close_ts = b.close_ts
SameHoursToClose(a, b) == a.hours_to_close = b.hours_to_close

\* C20: two candidates with equal ROI percent and the same close timestamp
\* are ranked in the order in which the filter emitted them, also when the
\* clock advances between their hours_to_close computations.
C20_StableForSameClose == [][ Ranks => KeepsOrderOfTies(SameCloseTs) ]_vars

\* C20, the part that holds: candidates with equal ROI percent and equal
\* hours_to_close keep their order of emission.
C20_StableForSameKeys == [][ Ranks => KeepsOrderOfTies(SameHoursToClose) ]_vars

\* run() has ended: completed, left early, or failed.
Ended(pc) == pc \in {"done", "aborted", "failed"}

\* C21: once initialize has created the gateway client, it is closed exactly
\* once on every path on which run() ends (normal completion, each early
\* exit, a failed login, an exception escaping from a later stage): the step
\* that ends the run closes the client, no other step does, and a closed
\* client is not touched again.
C21_ClientClosedOnce ==
    [][ /\ (~Ended(r_pc) /\ Ended(r_pc')) =>
              kalshi_client # "closed" /\ kalshi_client' = "closed"
        /\ (kalshi_client # "closed" /\ kalshi_client' = "closed") =>
              ~Ended(r_pc) /\ Ended(r_pc')
        /\ kalshi_client # "closed" ]_vars

\* C21 witness: an exception escaped from the notifier, the run failed and
\* the client is closed.
C21_Witness ==
    /\ r_pc = "failed"
    /\ n_pc = "raised"
    /\ kalshi_client = "closed"

\* A delivery was already attempted for the key of candidate c.
TriedKeyOf(c) ==
    \E k \in 1..Len(attempts) : StatedKey(Attempted(k)) = StatedKey(c)

\* C22: at most one delivery is attempted per dedup key: in the loop a
\* candidate whose key was already tried, successfully or not, is passed
\* over without an attempt, any other candidate is attempted, and a key
\* whose delivery failed gets no message in the run.
C22_OneAttemptPerKey ==
    [][ /\ (n_pc = "loop" /\ n_idx <= Len(qualifying_markets)) =>
              IF TriedKeyOf(qualifying_markets[n_idx])
              THEN attempts' = attempts /\ sent' = sent /\ n_idx' = n_idx + 1
              ELSE /\ Len(attempts') = Len(attempts) + 1
                   /\ attempts'[Len(attempts')].idx = n_idx
        /\ \A k, l \in 1..Len(attempts') :
              (attempts'[k].outcome # "ok" /\ attempts'[l].outcome = "ok") =>
                  StatedKey(qualifying_markets[attempts'[k].idx])
                      # StatedKey(qualifying_markets[attempts'[l].idx]) ]_vars

\* C22 witness: a delivery failed, a later candidate with the same key was
\* passed over, and a candidate after that one was attempted.
C22_Witness ==
    \E k, l \in 1..Len(attempts) :
        /\ attempts[k].outcome = "TelegramError"
        /\ \E j \in 1..Len(qualifying_markets) :
              /\ attempts[k].idx < j /\ j < attempts[l].idx
              /\ StatedKey(qualifying_markets[j]) = StatedKey(Attempted(k))
              /\ \A m \in 1..Len(attempts) : attempts[m].idx # j

\* The event tickers of a mapping, and the tickers of its markets.
EventTickersOf(mapping) == {mapping[k].event_ticker : k \in 1..Len(mapping)}
TickersOf(mapping) ==
    UNION { {mapping[e].markets[k].ticker : k \in 1..Len(mapping[e].markets)} :
            e \in 1..Len(mapping) }

\* The normalized events, before any is dropped.
Normalized == Normalize(events, cfg.max_markets_per_event, Len(events))

\* C23: from the normalization on, the run works with at most
\* max_events_to_analyze of the normalized events, all of them when they are
\* that few; no dropped event has a strictly greater 24h volume than a kept
\* one; getOdds is called for tickers of kept events only; and the
\* candidates of the filter and of the notifier belong to kept events.
C23_TopEventsOnly ==
    r_pc \in {"fetching", "filtering", "notifying", "done", "aborted", "failed"}
        /\ Normalized # << >> =>
        /\ Len(event_markets) = Min(cfg.max_events_to_analyze, Len(Normalized))
        /\ \A k \in 1..Len(event_markets) :
              \E i \in 1..Len(Normalized) : event_markets[k] = Normalized[i]
        /\ \A i \in 1..Len(Normalized) :
              Normalized[i].event_ticker \notin EventTickersOf(event_markets) =>
                  \A k \in 1..Len(event_markets) :
                      Normalized[i].event.volume_24h <= event_markets[k].event.volume_24h
        /\ \A p \in 1..Len(calls) : calls[p].ticker \in TickersOf(event_markets)
        /\ \A i \in 1..Len(results) :
              results[i].event_ticker \in EventTickersOf(event_markets)
        /\ \A i \in 1..Len(qualifying_markets) :
              qualifying_markets[i].event_ticker \in EventTickersOf(event_markets)

\* C23 witness: of two events whose markets all qualify the run kept the
\* second, which has the greater volume, fetched odds for it alone, and went
\* on to the end with the candidates of that event.
C23_Witness ==
    /\ r_pc = "done"
    /\ Len(Normalized) = 2
    /\ cfg.max_events_to_analyze = 1
    /\ event_markets = <<Normalized[2]>>
    /\ Normalized[1].event.volume_24h < Normalized[2].event.volume_24h
    /\ Normalized[1].markets[1].ticker = "T4"
    /\ calls # << >>
    /\ Len(results) = 2

\* C24: deliveries are attempted in rank order: the attempts go down the
\* ranked list, and every candidate ranked before an attempted one was
\* attempted earlier or has the key of a candidate attempted before it.
C24_AttemptsInRankOrder ==
    /\ \A k, l \in 1..Len(attempts) : k < l => attempts[k].idx < attempts[l].idx
    /\ \A k \in 1..Len(attempts) :
          \A j \in 1..(attempts[k].idx - 1) :
              \E m \in 1..(k - 1) :
                  /\ attempts[m].idx <= j
                  /\ StatedKey(Attempted(m)) = StatedKey(qualifying_markets[j])

\* C24 witness: three candidates with three keys were attempted in rank
\* order, the second delivery failing, until the cap of two was reached.
C24_Witness ==
    /\ n_pc = "done"
    /\ sent = 2 /\ top_n = 2
    /\ [k \in 1..Len(attempts) |-> attempts[k].idx] = <<1, 2, 3>>
    /\ [k \in 1..Len(attempts) |-> attempts[k].outcome] = <<"ok", "TelegramError", "ok">>

====
